---- MODULE Spec2Model ----
(***************************************************************************)
(* Model of the execution manager and position monitor of                  *)
(* src/exchange_execution.py (ExchangeClient.create_order and its helpers, *)
(* ExchangeManager.execute_signal, modify_position,                        *)
(* _check_dynamic_stop_loss, _check_take_profit_levels, monitor_positions).*)
(*                                                                         *)
(* Units.  Prices are integers in ticks of half a price unit: Px(100) is   *)
(* the price 100.0, so that entry + profit_distance * 0.5 is exact.        *)
(* Amounts (USDT amounts and position sizes handed to OrderParams.amount)  *)
(* are integers in hundredths: a percentage is an integer percent, and     *)
(* size * percentage is the amount in hundredths.  Contract quantities     *)
(* sent to the exchange are integers in units of 10^-amount_precision.     *)
(* 0 stands for None wherever the source tests a value for truthiness.     *)
(***************************************************************************)
EXTENDS Integers, Sequences, FiniteSets, TLC

\* ------------------------------------------------------------------ bounds
MaxPositions == 2        \* positions one fetch_positions call returns
MaxZones == 2            \* entry zones of a signal handed to execute_signal

\* Take-profit levels a candidate or a signal carries at most.
MaxLevels == 2
AmountPrecision == 1     \* MarketInfo.amount_precision of the traded symbols

\* --------------------------------------------------------------- constants
DEFAULT_LEVERAGE == 50   \* create_order: order.leverage or 50
CACHE_DURATION == 5      \* ExchangeClient.CACHE_DURATION, seconds
\* ExchangeClient.min_request_interval (0.1 s; 0.05 s Binance, 0.02 s OKX), in
\* the unit of the fine-grained time: half an interval.
min_request_interval == 2

Px(x) == 2 * x

Min(a, b) == IF a < b THEN a ELSE b

RECURSIVE Pow10(_)
Pow10(p) == IF p = 0 THEN 1 ELSE 10 * Pow10(p - 1)

\* ------------------------------------------------------------ input spaces
ExchangeNames == {"BINANCE", "OKX"}
Symbols == {"BTCUSDT", "ETHUSDT"}
\* last_price a get_market_info call may report; 0: no market info / no price
LastPrices == {0, Px(94), Px(96), Px(104), Px(106)}
EntryPrices == {Px(100)}
Sizes == {2}
MaxLeverages == {20, 125}
\* The exchange call of create_order that fails: setMarginMode, setLeverage,
\* createOrder, or none.
Failures == {"none", "margin_mode", "leverage", "submit"}
\* max_leverage as get_market_leverage_info reports it; 1 when the tier query failed
ReportedLeverages == MaxLeverages \cup {1}
PositionSides == {"long", "short"}

\* What the exchange answers during one create_order call: the last price of
\* get_market_info (0: none), the maximum leverage the tier query of
\* set_leverage reports, the one the tier query of convert_amount_to_contracts
\* reports, the call that fails and the id the exchange gives the order.
OrderEnv ==
    [last : {0, Px(104), Px(106)}, max_leverage : ReportedLeverages,
     sizing_max_leverage : ReportedLeverages, fail : Failures, order_id : {1}]

\* The answers that differ in their effect on the callers of create_order, for
\* a call made while the market info cache holds the price the caller has just
\* read and both tier queries report the same maximum.
OrderEnvs(price) ==
    {[last |-> price, max_leverage |-> m, sizing_max_leverage |-> m, fail |-> f, order_id |-> 1] :
        m \in MaxLeverages, f \in {"none", "submit"}}
    \cup {[last |-> price, max_leverage |-> 20, sizing_max_leverage |-> 20, fail |-> "leverage", order_id |-> 1]}
    \cup {[last |-> 0, max_leverage |-> 20, sizing_max_leverage |-> 20, fail |-> "none", order_id |-> 1]}

\* ------------------------------------------------------------- OrderParams
\* Fields in the order of the dataclass: symbol, side, order_type, amount, price,
\* stop_price, reduce_only, leverage, margin_mode.
OrderParams(sy, sd, ty, am, pr, sp, ro, lv, mm) ==
    [symbol |-> sy, side |-> sd, order_type |-> ty, amount |-> am,
     price |-> pr, stop_price |-> sp, reduce_only |-> ro, leverage |-> lv,
     margin_mode |-> mm]

\* validate without any test.
validate_any(order) == TRUE

validate(order) ==
    /\ order.symbol # "" /\ order.side # "" /\ order.order_type # ""
    /\ order.amount > 0
    /\ (order.order_type = "LIMIT" => order.price # 0)
    /\ (order.order_type \in {"STOP", "TAKE_PROFIT"} => order.stop_price # 0)

\* float(format(amount, '.{precision}f')) of the quantity num/den, in units of
\* 10^-precision: format rounds to the nearest, ties to even.
_format_amount(num, den, precision) ==
    LET n == num * Pow10(precision)
        q == n \div den
        r == n % den
    IN  IF 2 * r < den THEN q
        ELSE IF 2 * r > den THEN q + 1
        ELSE IF q % 2 = 0 THEN q ELSE q + 1

\* set_leverage returns the leverage capped at the exchange maximum.
set_leverage(leverage, max_leverage) == Min(leverage, max_leverage)

\* quantity = usdt_amount * actual_leverage / price, then _format_amount.
\* usdt_amount in hundredths, price in ticks.
convert_amount_to_contracts(usdt_amount, price, leverage, max_leverage) ==
    LET actual_leverage == Min(leverage, max_leverage)
    IN  [formatted_quantity |->
             _format_amount(usdt_amount * actual_leverage * 2, 100 * price,
                            AmountPrecision),
         leverage |-> actual_leverage]

NoResult == [success |-> FALSE, order_id |-> 0, executed_amount |-> 0]

\* order_failure with the exception turned into a failed OrderResult.
order_failure_result(submitted, steps) ==
    [raised |-> FALSE, submitted |-> submitted, result |-> NoResult, steps |-> steps]

\* except Exception as e: log; raise.  The exception reaches the caller.
order_failure(submitted, steps) ==
    [raised |-> TRUE, submitted |-> submitted, result |-> NoResult, steps |-> steps]

\* create_order: the calls it made on the way (steps), the request it submits
\* to the exchange (if it gets that far) and either the OrderResult it returns
\* or the fact that it raised.
create_order(order, env) ==
    IF ~validate(order) THEN order_failure(<<>>, <<>>)
    ELSE IF env.last = 0 THEN order_failure(<<>>, <<"get_market_info">>)
    ELSE IF env.fail = "margin_mode"
    THEN order_failure(<<>>, <<"get_market_info", "fetchMarketLeverageTiers", "setMarginMode">>)
    ELSE IF env.fail = "leverage"
    THEN order_failure(<<>>, <<"get_market_info", "fetchMarketLeverageTiers", "setMarginMode",
                               "setLeverage">>)
    ELSE
      LET use_price == IF order.order_type = "LIMIT" /\ order.price # 0
                       THEN order.price ELSE env.last
          leverage == IF order.leverage # 0 THEN order.leverage
                      ELSE DEFAULT_LEVERAGE
          actual_leverage == set_leverage(leverage, env.max_leverage)
          conv == convert_amount_to_contracts(order.amount, use_price,
                                              actual_leverage, env.sizing_max_leverage)
          params == [symbol |-> order.symbol, type |-> order.order_type,
                     side |-> order.side, amount |-> conv.formatted_quantity,
                     price |-> IF order.order_type = "LIMIT"
                               THEN order.price ELSE 0,
                     stopPrice |-> order.stop_price,
                     reduceOnly |-> order.reduce_only,
                     leverage |-> actual_leverage,
                     margin_mode |-> order.margin_mode]
          steps == <<"get_market_info", "fetchMarketLeverageTiers", "setMarginMode",
                     "setLeverage", "fetchMarketLeverageTiers", "createOrder">>
      IN  IF env.fail = "submit"
          THEN order_failure(<<params>>, steps)
          ELSE [raised |-> FALSE, submitted |-> <<params>>,
                result |-> [success |-> TRUE, order_id |-> env.order_id,
                            executed_amount |-> conv.formatted_quantity],
                steps |-> steps]

\* ------------------------------------------------------------------ state
VARIABLES
    exchanges,       \* ExchangeManager.exchanges: configured names, in dict order
    active_signals,  \* ExchangeManager.active_signals: key -> signal (NoSignal: absent)
    pc,              \* where monitor_positions stands
    ex_idx,          \* index in exchanges of the exchange of the current pass
    positions,       \* the list fetch_positions returned for that exchange
    pos_idx,         \* index in positions of the position being processed
    checked,         \* indices of positions whose two checks ran (this exchange)
    ran,             \* exchanges whose pass has started in this loop iteration
    failed,          \* exchanges whose pass raised in this loop iteration
    sent,            \* requests handed to the exchange by the last monitor step,
                     \* or so far by the execute_signal call
    stop_orders,     \* key -> <<previous, last>> stop applied by modify_position
    close_orders,    \* key -> level index -> successful take-profit close orders
    exec,            \* the execute_signal call in progress or last returned
    call,            \* the last other request-driven call: its arguments and outcome
    client,          \* the BINANCE client: its position cache for BTCUSDT, the age
                     \* of the entry, and the position the exchange holds
    boot,            \* ExchangeManager.initialize: its configuration and outcome
    tasks            \* the monitoring task and a request-driven call on the event
                     \* loop: where each stands, and the market cache they share

vars == <<exchanges, active_signals, pc, ex_idx, positions, pos_idx, checked, ran, failed, sent, stop_orders, close_orders, exec, call, client, boot, tasks>>

api_vars == <<call, client, boot, tasks>>

loop_vars == <<pc, ex_idx, positions, pos_idx, checked, ran, failed>>

\* ---------------------------------------------------------------- signals
signal_key(exchange_name, symbol) == <<exchange_name, symbol>>

Keys == ExchangeNames \X Symbols

\* The keys signals are registered under: the positions of the other symbol
\* are positions without a signal.
SignalKeys == ExchangeNames \X {"BTCUSDT"}

TakeProfitLevel(price, percentage) ==
    [price |-> price, percentage |-> percentage, is_hit |-> FALSE, hit_time |-> 0]

NoSignal ==
    [action |-> "NONE", stop_loss |-> 0, dynamic_sl |-> FALSE, take_profit_levels |-> <<>>]

LongSignal(dynamic_sl) ==
    [action |-> "OPEN_LONG", stop_loss |-> Px(98), dynamic_sl |-> dynamic_sl,
     take_profit_levels |-> <<TakeProfitLevel(Px(104), 40), TakeProfitLevel(Px(106), 60)>>]

ShortSignal(dynamic_sl) ==
    [action |-> "OPEN_SHORT", stop_loss |-> Px(102), dynamic_sl |-> dynamic_sl,
     take_profit_levels |-> <<TakeProfitLevel(Px(96), 40), TakeProfitLevel(Px(94), 60)>>]

NewSignals == {LongSignal(d) : d \in BOOLEAN} \cup {ShortSignal(d) : d \in BOOLEAN}

NoStops == <<0, 0>>

NoCloses == [i \in 1..2 |-> 0]

\* -------------------------------------------------------------- positions
Position == [symbol : Symbols, size : Sizes \cup {0}, entry_price : EntryPrices]

RawPositions == UNION {[1..n -> Position] : n \in 0..MaxPositions}

\* fetch_positions: PositionInfo.from_exchange_position drops the zero amounts;
\* any exception is swallowed and gives the empty list.
fetch_positions(raw, ok) ==
    IF ok THEN SelectSeq(raw, LAMBDA p : p.size # 0) ELSE <<>>

\* The live position get_positions(symbol) hands to modify_position (size 0: none).
LivePositions == [size : Sizes \cup {0}, side : PositionSides]

\* ------------------------------------------------- requests seen by the exchange
\* One entry of sent: the createOrder request, whether the exchange accepted it,
\* and what the caller was doing: kind ("entry", "sl", "tp"), and in ctx the
\* index of the zone or take-profit level, the position size and percentage the
\* order was sized from, and the signal's action.
Ctx(index, size, percentage, action) ==
    [index |-> index, size |-> size, percentage |-> percentage, action |-> action]

Sent(r, kind, ctx) ==
    [i \in 1..Len(r.submitted) |->
        [params |-> r.submitted[i], accepted |-> ~r.raised, kind |-> kind, ctx |-> ctx]]

\* ------------------------------------------------------------ modify_position
\* live: the first position get_positions(symbol) returns (size 0: none).
\* Returns the success flag, the sub-operations attempted (create_order
\* called), the requests submitted and the stop price of the stop order the
\* exchange accepted (0: none).  An exception of create_order
\* ends the call with False.
modify_position(symbol, stop_loss, take_profit, live, env_sl, env_tp) ==
    IF live.size = 0
    THEN [success |-> FALSE, raised |-> FALSE, submitted |-> <<>>, stop_applied |-> 0,
          attempted |-> <<>>]
    ELSE
      LET side == IF live.side = "short" THEN "buy" ELSE "sell"
          sl == create_order(OrderParams(symbol, side, "STOP_MARKET", live.size * 100, 0, stop_loss, TRUE, 0, "cross"), env_sl)
          tp == create_order(OrderParams(symbol, side, "TAKE_PROFIT_MARKET", live.size * 100, 0, take_profit, TRUE, 0, "cross"), env_tp)
          sl_sub == IF stop_loss # 0 THEN sl.submitted ELSE <<>>
          sl_bad == stop_loss # 0 /\ sl.raised
          tp_try == take_profit # 0 /\ ~sl_bad
      IN  [success |-> ~sl_bad /\ (tp_try => ~tp.raised),
           raised |-> sl_bad \/ (tp_try /\ tp.raised),
           submitted |-> sl_sub \o (IF tp_try THEN tp.submitted ELSE <<>>),
           stop_applied |-> IF stop_loss # 0 /\ ~sl.raised THEN stop_loss ELSE 0,
           attempted |-> (IF stop_loss # 0 THEN <<"stop_loss">> ELSE <<>>)
                         \o (IF tp_try THEN <<"take_profit">> ELSE <<>>)]

\* --------------------------------------------------- _check_dynamic_stop_loss
\* entry +/- profit_distance * 0.5 (prices are in half units, so the product by
\* 0.5 of a difference of two whole prices is exact).
half_profit(distance) == distance \div 2

\* The guard of the stop update: the proposed stop against signal.stop_loss.
sl_improves(action, new_sl, stop_loss) ==
    IF action = "OPEN_LONG" THEN new_sl > stop_loss ELSE new_sl < stop_loss

\* The stop price _check_dynamic_stop_loss passes to modify_position; 0 when it
\* returns without calling it.
dynamic_new_sl(signal, position, current_price) ==
    IF position.size = 0 \/ signal = NoSignal \/ ~signal.dynamic_sl \/ current_price = 0
    THEN 0
    ELSE
      LET entry_price == position.entry_price
          new_sl == IF signal.action = "OPEN_LONG"
                    THEN entry_price + half_profit(current_price - entry_price)
                    ELSE entry_price - half_profit(entry_price - current_price)
          in_profit == IF signal.action = "OPEN_LONG"
                       THEN current_price > entry_price
                       ELSE current_price < entry_price
      IN  IF in_profit /\ sl_improves(signal.action, new_sl, signal.stop_loss)
          THEN new_sl ELSE 0

\* -------------------------------------------------- _check_take_profit_levels
\* tp_skip without the is_hit test.
tp_skip_never(tp_level) == FALSE

tp_skip(tp_level) == tp_level.is_hit

tp_is_hit(action, current_price, tp_level) ==
    \/ action = "OPEN_LONG" /\ current_price >= tp_level.price
    \/ action = "OPEN_SHORT" /\ current_price <= tp_level.price

\* tp_mark with the marking moved before the outcome of the order is known.
tp_mark_always(tp_level, r) == [tp_level EXCEPT !.is_hit = TRUE, !.hit_time = 1]

\* The level once create_order has ended with r: marked hit, with the hit time,
\* if it returned a successful result; untouched if it raised.
tp_mark(tp_level, r) ==
    IF ~r.raised /\ r.result.success
    THEN [tp_level EXCEPT !.is_hit = TRUE, !.hit_time = 1]
    ELSE tp_level

\* Levels for which the loop calls create_order at this price, if it gets to them.
tp_triggered(signal, current_price) ==
    {i \in 1..Len(signal.take_profit_levels) :
        /\ current_price # 0
        /\ ~tp_skip(signal.take_profit_levels[i])
        /\ tp_is_hit(signal.action, current_price, signal.take_profit_levels[i])}

tp_order(symbol, signal, position, tp_level) ==
    OrderParams(symbol, IF signal.action = "OPEN_LONG" THEN "sell" ELSE "buy",
                "MARKET", position.size * tp_level.percentage, 0, 0, TRUE, 0, "cross")

\* The for loop over signal.take_profit_levels from level i on.  acc holds the
\* levels as mutated so far, the requests submitted, the levels whose close
\* order succeeded, and whether create_order raised (which ends the handler).
RECURSIVE tp_loop(_, _, _, _, _, _)
tp_loop(signal, position, current_price, envs, i, acc) ==
    IF i > Len(acc.levels) THEN acc
    ELSE IF i \notin tp_triggered(signal, current_price)
    THEN tp_loop(signal, position, current_price, envs, i + 1, acc)
    ELSE
      LET tp_level == acc.levels[i]
          r == create_order(tp_order(position.symbol, signal, position, tp_level), envs[i])
          s == Sent(r, "tp", Ctx(i, position.size, tp_level.percentage, signal.action))
          done == [acc EXCEPT !.levels[i] = tp_mark(tp_level, r), !.sent = @ \o s]
      IN  IF r.raised
          THEN [done EXCEPT !.raised = TRUE]
          ELSE tp_loop(signal, position, current_price, envs, i + 1,
                       [done EXCEPT !.closed = @ \cup {i}])

_check_take_profit_levels(signal, position, current_price, envs) ==
    IF signal = NoSignal \/ Len(signal.take_profit_levels) = 0 \/ current_price = 0
    THEN [levels |-> signal.take_profit_levels, sent |-> <<>>, closed |-> {}, raised |-> FALSE]
    ELSE
    tp_loop(signal, position, current_price, envs, 1,
            [levels |-> signal.take_profit_levels, sent |-> <<>>, closed |-> {}, raised |-> FALSE])

\* ---------------------------------------------------------- monitor_positions
\* ExchangeManager defines no _update_position_stats: the call at the end of a
\* position's processing raises AttributeError.
has_update_position_stats == FALSE

\* Where the loop goes once the pass of exchange i is over: the next exchange
\* of the for loop, or the sleep that ends the iteration.
next_exchange(i) ==
    IF i < Len(exchanges) THEN [pc |-> "exchange", ex_idx |-> i + 1]
    ELSE [pc |-> "sleep", ex_idx |-> i]

\* inner_except with the try around the whole for loop: the iteration ends.
outer_except(i) == [pc |-> "sleep", ex_idx |-> i]

\* inner_except without any try in the loop: the exception ends the task.
loop_stops(i) == [pc |-> "stopped", ex_idx |-> i]

\* The inner except clause: log, then continue with the next exchange.
inner_except(i) == next_exchange(i)

\* Registration of a signal in active_signals; nothing in ExchangeManager does
\* it, the owner of the manager writes the dictionary.  The model holds one
\* signal at a time, under any key: a handler reads only the entry of the key
\* of the position it is processing.
RegisterSignal(key, signal) ==
    /\ \A k \in Keys \ {key} : active_signals[k] = NoSignal
    /\ active_signals' = [active_signals EXCEPT ![key] = signal]
    /\ stop_orders' = [stop_orders EXCEPT ![key] = NoStops]
    /\ close_orders' = [close_orders EXCEPT ![key] = NoCloses]
    /\ sent' = <<>>
    /\ UNCHANGED <<exchanges, exec, api_vars, loop_vars>>

\* positions = await exchange.fetch_positions(); a call that fails gives the
\* empty list whatever the exchange holds, so it is drawn once.
FetchPositions ==
    /\ pc = "exchange"
    /\ \E raw \in RawPositions :
          \E ok \in (IF raw = <<>> THEN BOOLEAN ELSE {TRUE}) :
             positions' = fetch_positions(raw, ok)
    /\ pos_idx' = 1
    /\ checked' = {}
    /\ ran' = ran \cup {exchanges[ex_idx]}
    /\ pc' = "position"
    /\ sent' = <<>>
    /\ UNCHANGED <<exchanges, exec, api_vars, active_signals, ex_idx, failed, stop_orders, close_orders>>

\* for position in positions: if position.size == 0: continue
NextPosition ==
    /\ pc = "position"
    /\ IF pos_idx > Len(positions)
       THEN /\ pc' = next_exchange(ex_idx).pc
            /\ ex_idx' = next_exchange(ex_idx).ex_idx
            /\ UNCHANGED pos_idx
       ELSE IF positions[pos_idx].size = 0
       THEN /\ pos_idx' = pos_idx + 1
            /\ UNCHANGED <<pc, ex_idx>>
       ELSE /\ pc' = "dsl"
            /\ UNCHANGED <<ex_idx, pos_idx>>
    /\ sent' = <<>>
    /\ UNCHANGED <<exchanges, exec, api_vars, active_signals, positions, checked, ran, failed, stop_orders, close_orders>>

\* await self._check_dynamic_stop_loss(exchange_name, position.symbol, position)
CheckDynamicStopLoss ==
    /\ pc = "dsl"
    /\ LET position == positions[pos_idx]
           key == signal_key(exchanges[ex_idx], position.symbol)
           signal == active_signals[key]
       IN  \E current_price \in LastPrices :
             LET new_sl == dynamic_new_sl(signal, position, current_price)
             IN  IF new_sl = 0
                 THEN sent' = <<>> /\ UNCHANGED stop_orders
                 ELSE \E live \in LivePositions, env \in OrderEnvs(current_price) :
                        LET r == modify_position(position.symbol, new_sl, 0, live, env, env)
                        IN  /\ sent' = Sent(r, "sl", Ctx(0, live.size, 100, signal.action))
                            /\ stop_orders' =
                                 IF r.stop_applied = 0 THEN stop_orders
                                 ELSE [stop_orders EXCEPT ![key] = <<@[2], r.stop_applied>>]
    /\ pc' = "tp"
    /\ UNCHANGED <<exchanges, exec, api_vars, active_signals, ex_idx, positions, pos_idx, checked, ran, failed, close_orders>>

\* await self._check_take_profit_levels(exchange_name, position.symbol, position)
CheckTakeProfitLevels ==
    /\ pc = "tp"
    /\ LET position == positions[pos_idx]
           key == signal_key(exchanges[ex_idx], position.symbol)
           signal == active_signals[key]
       IN  \E current_price \in LastPrices :
           \E envs \in [tp_triggered(signal, current_price) -> OrderEnvs(current_price)] :
             LET r == _check_take_profit_levels(signal, position, current_price, envs)
             IN  /\ active_signals' = [active_signals EXCEPT ![key].take_profit_levels = r.levels]
                 /\ sent' = r.sent
                 /\ close_orders' = [close_orders EXCEPT ![key] =
                        [i \in DOMAIN @ |-> IF i \in r.closed THEN Min(@[i] + 1, 2) ELSE @[i]]]
    /\ checked' = checked \cup {pos_idx}
    /\ pc' = "stats"
    /\ UNCHANGED <<exchanges, exec, api_vars, ex_idx, positions, pos_idx, ran, failed, stop_orders>>

\* await self._update_position_stats(exchange_name, position.symbol, position)
UpdatePositionStats ==
    /\ pc = "stats"
    /\ IF has_update_position_stats
       THEN /\ pos_idx' = pos_idx + 1
            /\ pc' = "position"
            /\ UNCHANGED <<ex_idx, failed>>
       ELSE /\ failed' = failed \cup {exchanges[ex_idx]}
            /\ pc' = inner_except(ex_idx).pc
            /\ ex_idx' = inner_except(ex_idx).ex_idx
            /\ UNCHANGED pos_idx
    /\ sent' = <<>>
    /\ UNCHANGED <<exchanges, exec, api_vars, active_signals, positions, checked, ran, stop_orders, close_orders>>

\* await asyncio.sleep(1), then the next iteration of while True
Sleep ==
    /\ pc = "sleep"
    /\ pc' = IF Len(exchanges) = 0 THEN "sleep" ELSE "exchange"
    /\ ex_idx' = 1
    /\ positions' = <<>>
    /\ pos_idx' = 1
    /\ checked' = {}
    /\ ran' = {}
    /\ failed' = {}
    /\ sent' = <<>>
    /\ UNCHANGED <<exchanges, exec, api_vars, active_signals, stop_orders, close_orders>>

Monitor ==
    \/ FetchPositions
    \/ NextPosition
    \/ CheckDynamicStopLoss
    \/ CheckTakeProfitLevels
    \/ UpdatePositionStats
    \/ Sleep

Register == \E key \in SignalKeys, signal \in NewSignals : RegisterSignal(key, signal)

\* ------------------------------------------------------ request-driven calls
\* Requests are made one at a time: call holds the last one that is not an
\* execute_signal, exec the execute_signal.
NoArgs == [none |-> TRUE]

CallIdle == [op |-> "none", args |-> NoArgs, out |-> NoArgs]

\* The position the exchange holds for BTCUSDT at BINANCE when the manager
\* starts, with nothing cached.
\* _position_cache, age: the entry of BTCUSDT (size 0: none) and the seconds
\* since it was stored.  The other caches hold <<>> (no entry) or <<value>>:
\* _position_cache_all the list stored under 'all', _market_cache the last
\* price of the MarketInfo of BTCUSDT, _balance_cache the total of the
\* AccountBalance; all_age, market_age, balance_age the seconds since each was
\* stored.  Ages are kept up to CACHE_DURATION.
\* since_request: time.time() - self._last_request_time; since_call: the time
\* since the client issued its last outbound call.  Both in half intervals and
\* kept up to min_request_interval (anything longer is long enough).
\* since_close, closed: the seconds since close_position last returned a
\* success (up to CACHE_DURATION) and the position it had read.
ClientNew ==
    [position |-> [size |-> 2, side |-> "long"],
     _position_cache |-> [size |-> 0, side |-> "long"], age |-> 0,
     _position_cache_all |-> <<>>, all_age |-> 0,
     _market_cache |-> <<>>, market_age |-> 0,
     _balance_cache |-> <<>>, balance_age |-> 0,
     since_request |-> min_request_interval, since_call |-> min_request_interval,
     since_close |-> CACHE_DURATION, closed |-> [size |-> 0, side |-> "long"]]

\* The steps that call self._rate_limit() before they go out.
RateLimited == {"get_market_info", "fetchPositions", "fetchBalance", "cancelOrder"}

\* The time an exchange call takes to return, in half intervals.
Latencies == 0..min_request_interval

\* ExchangeClient._rate_limit: the time slept before the call goes out.
rate_limit(since_request) ==
    IF since_request < min_request_interval THEN min_request_interval - since_request ELSE 0

\* The outbound calls of steps made one after the other, each taking latency
\* to return: the time between each call and the outbound call before it
\* (gaps, kept up to min_request_interval) and the two timers afterwards.
RECURSIVE outbound(_, _, _, _)
outbound(steps, since_request, since_call, latency) ==
    IF steps = <<>>
    THEN [gaps |-> <<>>, since_request |-> since_request, since_call |-> since_call]
    ELSE
      LET wait == IF Head(steps) \in RateLimited THEN rate_limit(since_request) ELSE 0
          rest == outbound(Tail(steps),
                           IF Head(steps) \in RateLimited THEN latency
                           ELSE Min(since_request + latency, min_request_interval),
                           latency, latency)
      IN  [rest EXCEPT !.gaps = <<Min(since_call + wait, min_request_interval)>> \o @]

\* The client after the outbound calls of steps.
after_calls(cl, steps, latency) ==
    LET t == outbound(steps, cl.since_request, cl.since_call, latency)
    IN  [cl EXCEPT !.since_request = t.since_request, !.since_call = t.since_call]

ExchangeConfigs == [binance_testnet_api_key : BOOLEAN, okx_testnet_api_key : BOOLEAN]

\* The state after an initialize that registered both exchanges.
BootDone ==
    [done |-> TRUE, config |-> [binance_testnet_api_key |-> TRUE, okx_testnet_api_key |-> TRUE],
     outcome |-> [n \in ExchangeNames |-> "ok"], result |-> TRUE]

\* The state of a manager that was constructed and not yet initialized.
BootNew ==
    [done |-> FALSE, config |-> [binance_testnet_api_key |-> FALSE, okx_testnet_api_key |-> FALSE],
     outcome |-> [n \in ExchangeNames |-> "ok"], result |-> FALSE]

\* How the start of one client ends: "ok", or the step that raises: the client
\* constructor, the ccxt constructor, fetch_balance or _load_markets inside
\* _setup_exchange, the second _load_markets of initialize, the aiohttp session.
InitOutcomes == {"ok", "construct", "exchange", "balance", "markets", "reload", "session"}

\* BinanceClient._setup_exchange / OKXClient._setup_exchange: any exception
\* is caught and gives False.
_setup_exchange(outcome) == outcome \notin {"exchange", "balance", "markets"}

\* client_initialize that reports success whatever happened.
client_initialize_any(outcome) == TRUE

\* ExchangeClient.initialize: False when _setup_exchange is false or when the
\* market reload or the session creation raises.
client_initialize(outcome) == _setup_exchange(outcome) /\ outcome \notin {"reload", "session"}

\* The configuration field that switches the client of an exchange on.
config_key(name) == IF name = "BINANCE" THEN "binance_testnet_api_key" ELSE "okx_testnet_api_key"

\* The client of the exchange is put into self.exchanges: its key is set, its
\* constructor did not raise and its initialize() returned true.
registers(config, outcome, name) ==
    config[config_key(name)] /\ outcome[name] # "construct" /\ client_initialize(outcome[name])

\* await manager.initialize(): Binance first, then OKX; true iff success was
\* set, which happens with each registration.
Initialize ==
    /\ ~boot.done
    /\ \E config \in ExchangeConfigs, outcome \in [ExchangeNames -> InitOutcomes] :
         LET registered == (IF registers(config, outcome, "BINANCE") THEN <<"BINANCE">> ELSE <<>>)
                           \o (IF registers(config, outcome, "OKX") THEN <<"OKX">> ELSE <<>>)
         IN  /\ exchanges' = registered
             /\ boot' = [done |-> TRUE, config |-> config, outcome |-> outcome,
                         result |-> registered # <<>>]
    /\ UNCHANGED <<active_signals, loop_vars, stop_orders, close_orders, exec, call, client, sent, tasks>>

\* No request is in progress and the outcome of the last one has been taken.
NoRequest == exec.pc = "idle" /\ call.op = "none"

\* The caller has the outcome of the call; the next request can be made.
CallDone ==
    /\ call.op # "none"
    /\ call' = CallIdle
    /\ sent' = <<>>
    /\ UNCHANGED <<exchanges, active_signals, loop_vars, stop_orders, close_orders, exec, client, boot, tasks>>

\* configured with the lookup always finding a client.
configured_any(exchange) == TRUE

\* self.exchanges.get(exchange) finds a client.
configured(exchange) == exchange \in {exchanges[i] : i \in DOMAIN exchanges}

\* f"Exchange {exchange} not configured"
not_configured(exchange) == "Exchange " \o exchange \o " not configured"

\* f"No position found for {symbol}"
no_position_found(symbol) == "No position found for " \o symbol

\* cache_fresh with the boundary included: an entry of age CACHE_DURATION is
\* still served.
cache_fresh_inclusive(age) == age <= CACHE_DURATION

\* cache_fresh without the age test: an entry is served whatever its age.
cache_fresh_always(age) == TRUE

\* now - self._position_cache_time[key] < self.CACHE_DURATION
cache_fresh(age) == age < CACHE_DURATION

\* get_positions without the cache: the exchange is asked every time.
get_positions_uncached(cl, ok) ==
    IF ~ok \/ cl.position.size = 0
    THEN [positions |-> <<>>, client |-> cl, fetched |-> TRUE]
    ELSE [positions |-> <<cl.position>>,
          client |-> [cl EXCEPT !._position_cache = cl.position, !.age = 0],
          fetched |-> TRUE]

\* ExchangeClient.get_positions(symbol) on client state cl: the list returned,
\* the client afterwards and whether the exchange was asked.  ok: the
\* fetchPositions call succeeds (a failure is caught and gives the empty list).
get_positions(cl, ok) ==
    IF cl._position_cache.size # 0 /\ cache_fresh(cl.age)
    THEN [positions |-> <<cl._position_cache>>, client |-> cl, fetched |-> FALSE]
    ELSE IF ~ok \/ cl.position.size = 0
    THEN [positions |-> <<>>, client |-> cl, fetched |-> TRUE]
    ELSE [positions |-> <<cl.position>>,
          client |-> [cl EXCEPT !._position_cache = cl.position, !.age = 0],
          fetched |-> TRUE]

\* ExchangeClient.get_positions() without symbol: the key is 'all'.  raw is
\* what fetchPositions returns; entries without contracts are left out, each
\* position kept is stored under its symbol and the list under 'all'.  A hit
\* returns [self._position_cache['all']].
get_all_positions(cl, ok) ==
    IF cl._position_cache_all # <<>> /\ cache_fresh(cl.all_age)
    THEN [positions |-> <<cl._position_cache_all[1]>>, client |-> cl, fetched |-> FALSE]
    ELSE IF ~ok
    THEN [positions |-> <<>>, client |-> cl, fetched |-> TRUE]
    ELSE
      LET raw == <<cl.position>>
          result == SelectSeq(raw, LAMBDA pos : pos.size # 0)
      IN  [positions |-> result,
           client |-> IF result = <<>>
                      THEN [cl EXCEPT !._position_cache_all = <<result>>, !.all_age = 0]
                      ELSE [cl EXCEPT !._position_cache = result[1], !.age = 0,
                                      !._position_cache_all = <<result>>, !.all_age = 0],
           fetched |-> TRUE]

\* ExchangeClient.get_market_info(symbol): the MarketInfo returned (<<>>: None).
\* last: the price the ticker reports; ok: market and ticker calls succeed.
get_market_info(cl, last, ok) ==
    IF cl._market_cache # <<>> /\ cache_fresh(cl.market_age)
    THEN [value |-> cl._market_cache, client |-> cl, fetched |-> FALSE]
    ELSE IF ~ok
    THEN [value |-> <<>>, client |-> cl, fetched |-> TRUE]
    ELSE [value |-> <<last>>,
          client |-> [cl EXCEPT !._market_cache = <<last>>, !.market_age = 0],
          fetched |-> TRUE]

\* AccountBalance(): the balance with every amount zero.
EmptyBalance == <<0>>

\* get_balance that stores what it returns after a failed fetch as well.
get_balance_store_failure(cl, total, ok) ==
    IF cl._balance_cache # <<>> /\ cache_fresh(cl.balance_age)
    THEN [value |-> cl._balance_cache, client |-> cl, fetched |-> FALSE, failed |-> FALSE]
    ELSE LET value == IF ok THEN <<total>> ELSE EmptyBalance
         IN  [value |-> value,
              client |-> [cl EXCEPT !._balance_cache = value, !.balance_age = 0],
              fetched |-> TRUE, failed |-> ~ok]

\* ExchangeClient.get_balance(): the AccountBalance returned.  total: what
\* fetchBalance reports; a failed fetch gives AccountBalance(), all zero, and
\* stores nothing.
get_balance(cl, total, ok) ==
    IF cl._balance_cache # <<>> /\ cache_fresh(cl.balance_age)
    THEN [value |-> cl._balance_cache, client |-> cl, fetched |-> FALSE, failed |-> FALSE]
    ELSE IF ~ok
    THEN [value |-> EmptyBalance, client |-> cl, fetched |-> TRUE, failed |-> TRUE]
    ELSE [value |-> <<total>>,
          client |-> [cl EXCEPT !._balance_cache = <<total>>, !.balance_age = 0],
          fetched |-> TRUE, failed |-> FALSE]

LastTicker == {Px(104), Px(106)}
Totals == {0, 1000}

\* await client.get_market_info("BTCUSDT")
GetMarketInfo ==
    /\ NoRequest
    /\ \E last \in LastTicker, ok \in BOOLEAN :
         LET r == get_market_info(client, last, ok)
         IN  /\ call' = [op |-> "get_market_info", args |-> [ok |-> ok, before |-> client],
                         out |-> [raised |-> FALSE, value |-> r.value, fetched |-> r.fetched]]
             /\ client' = r.client
    /\ sent' = <<>>
    /\ UNCHANGED <<exchanges, active_signals, loop_vars, stop_orders, close_orders, exec, boot, tasks>>

\* await client.get_balance()
GetBalance ==
    /\ NoRequest
    /\ \E total \in Totals, ok \in BOOLEAN :
         LET r == get_balance(client, total, ok)
         IN  /\ call' = [op |-> "get_balance", args |-> [ok |-> ok, before |-> client],
                         out |-> [raised |-> FALSE, value |-> r.value, fetched |-> r.fetched]]
             /\ client' = r.client
    /\ sent' = <<>>
    /\ UNCHANGED <<exchanges, active_signals, loop_vars, stop_orders, close_orders, exec, boot, tasks>>

\* await client.get_positions(symbol); symbol "": no symbol given.
GetPositions(symbol) ==
    /\ NoRequest
    /\ \E ok \in BOOLEAN :
         LET r == IF symbol = "" THEN get_all_positions(client, ok) ELSE get_positions(client, ok)
         IN  /\ call' = [op |-> "get_positions",
                         args |-> [symbol |-> symbol, ok |-> ok, before |-> client],
                         out |-> [raised |-> FALSE, value |-> r.positions, fetched |-> r.fetched]]
             /\ client' = r.client
    /\ sent' = <<>>
    /\ UNCHANGED <<exchanges, active_signals, loop_vars, stop_orders, close_orders, exec, boot, tasks>>

\* ExchangeManager.close_position from the position list on: the result
\* returned and the requests submitted.  An exception of create_order is caught
\* and returned as a failed result.
close_position(symbol, found, env) ==
    IF found = <<>>
    THEN [success |-> FALSE, error_message |-> no_position_found(symbol),
          orders |-> <<>>, submitted |-> <<>>, accepted |-> FALSE]
    ELSE
      LET position == found[1]
          order == OrderParams(symbol, IF position.side = "long" THEN "sell" ELSE "buy",
                               "MARKET", position.size * 100, 0, 0, TRUE, 0, "cross")
          r == create_order(order, env)
      IN  [success |-> ~r.raised /\ r.result.success,
           error_message |-> IF r.raised THEN "exception" ELSE "",
           orders |-> <<order>>, submitted |-> r.submitted, accepted |-> ~r.raised]

CallExchanges == {"BINANCE", "BYBIT"}

\* await manager.close_position(exchange, symbol)
ClosePosition(exchange, symbol) ==
    /\ NoRequest
    /\ \E ok \in BOOLEAN, env \in OrderEnvs(Px(104)) :
         LET gp == IF configured(exchange) THEN get_positions(client, ok)
                   ELSE [positions |-> <<>>, client |-> client, fetched |-> FALSE]
             r == IF configured(exchange) THEN close_position(symbol, gp.positions, env)
                  ELSE [success |-> FALSE, error_message |-> not_configured(exchange),
                        orders |-> <<>>, submitted |-> <<>>, accepted |-> FALSE]
         IN  /\ call' = [op |-> "close_position",
                         args |-> [exchange |-> exchange, symbol |-> symbol, before |-> client],
                         out |-> [success |-> r.success, error_message |-> r.error_message,
                                  raised |-> FALSE, positions |-> gp.positions,
                                  fetched |-> gp.fetched, orders |-> r.orders,
                                  submitted |-> r.submitted]]
             /\ client' = IF r.success
                          THEN [gp.client EXCEPT !.since_close = 0, !.closed = gp.positions[1]]
                          ELSE gp.client
             /\ sent' = [i \in 1..Len(r.submitted) |->
                            [params |-> r.submitted[i], accepted |-> r.accepted, kind |-> "close",
                             ctx |-> Ctx(0, 0, 100, "CLOSE")]]
    /\ UNCHANGED <<exchanges, active_signals, loop_vars, stop_orders, close_orders, exec, boot, tasks>>

\* await manager.modify_position(exchange, symbol, stop_loss, take_profit)
ModifyPosition(exchange, symbol, stop_loss, take_profit) ==
    /\ NoRequest
    /\ \E ok \in BOOLEAN, env_sl \in OrderEnvs(Px(104)), env_tp \in OrderEnvs(Px(104)) :
         LET gp == IF configured(exchange) THEN get_positions(client, ok)
                   ELSE [positions |-> <<>>, client |-> client, fetched |-> FALSE]
             live == IF gp.positions = <<>> THEN [size |-> 0, side |-> "long"]
                     ELSE gp.positions[1]
             r == modify_position(symbol, stop_loss, take_profit, live, env_sl, env_tp)
         IN  /\ call' = [op |-> "modify_position",
                         args |-> [exchange |-> exchange, symbol |-> symbol,
                                   stop_loss |-> stop_loss, take_profit |-> take_profit,
                                   before |-> client],
                         out |-> [success |-> r.success, raised |-> FALSE,
                                  positions |-> gp.positions, fetched |-> gp.fetched,
                                  attempted |-> r.attempted, submitted |-> r.submitted,
                                  failed |-> r.raised]]
             /\ client' = gp.client
             /\ sent' = Sent(r, "modify", Ctx(0, live.size, 100, "MODIFY"))
    /\ UNCHANGED <<exchanges, active_signals, loop_vars, stop_orders, close_orders, exec, boot, tasks>>

\* The client one second later: every cache entry is a second older.
aged(cl) ==
    [cl EXCEPT !.age = IF cl._position_cache.size # 0 THEN Min(@ + 1, CACHE_DURATION) ELSE @,
               !.all_age = IF cl._position_cache_all # <<>> THEN Min(@ + 1, CACHE_DURATION) ELSE @,
               !.market_age = IF cl._market_cache # <<>> THEN Min(@ + 1, CACHE_DURATION) ELSE @,
               !.balance_age = IF cl._balance_cache # <<>> THEN Min(@ + 1, CACHE_DURATION) ELSE @,
               !.since_close = Min(@ + 1, CACHE_DURATION),
               !.since_request = min_request_interval,
               !.since_call = min_request_interval]

\* One second passes between two requests.
Tick ==
    /\ call.op = "none"
    /\ aged(client) # client
    /\ client' = aged(client)
    /\ UNCHANGED <<exchanges, active_signals, loop_vars, stop_orders, close_orders, exec, call, boot, tasks, sent>>

\* The exchange fills or closes the position.
PositionChange ==
    /\ call.op = "none"
    /\ \E p \in LivePositions : p # client.position /\ client' = [client EXCEPT !.position = p]
    /\ UNCHANGED <<exchanges, active_signals, loop_vars, stop_orders, close_orders, exec, call, boot, tasks, sent>>

\* ------------------------------------------------------------ execute_signal
\* An entry zone as TradingLogic builds it: price and percentage; status and
\* order_id are set by execute_signal once the zone's order is placed.
EntryZone(price, percentage) ==
    [price |-> price, percentage |-> percentage, status |-> "PENDING", order_id |-> 0]

EntryZones == {EntryZone(Px(100), 60), EntryZone(Px(98), 40), EntryZone(Px(98), 0)}

ZoneLists == UNION {[1..n -> EntryZones] : n \in 0..MaxZones}

\* The signals handed to execute_signal.  BYBIT is not a configured exchange;
\* entry_price 0 and leverage 0 are None, the empty entry_zones is None.
TradingSignal ==
    [exchange : {"BINANCE", "BYBIT"}, symbol : {"BTCUSDT"},
     action : {"OPEN_LONG", "OPEN_SHORT", "CLOSE"}, entry_price : {0, Px(100)},
     entry_zones : ZoneLists, position_size : {100}, leverage : {0, 10},
     margin_mode : {"cross", "isolated"}]

NoTradingSignal ==
    [exchange |-> "", symbol |-> "", action |-> "NONE", entry_price |-> 0,
     entry_zones |-> <<>>, position_size |-> 0, leverage |-> 0, margin_mode |-> ""]

\* exec: where the call stands (pc), its signal (whose zones it mutates), the
\* index of the zone the for loop is at, the OrderParams handed to create_order
\* so far, the results list, and once it has returned the OrderResult returned
\* and its error_message.
ExecIdle ==
    [pc |-> "idle", signal |-> NoTradingSignal, zone_idx |-> 0, orders |-> <<>>,
     results |-> <<>>, result |-> NoResult, error_message |-> ""]

open_side(signal) == IF signal.action = "OPEN_LONG" THEN "buy" ELSE "sell"

\* The OrderParams of one zone: zone_amount = total_amount * zone.percentage.
zone_order(signal, zone) ==
    OrderParams(signal.symbol, open_side(signal), "LIMIT",
                signal.position_size * zone.percentage, zone.price, 0, FALSE,
                signal.leverage, signal.margin_mode)

\* single_order with the order type fixed to LIMIT.
single_order_limit(signal) ==
    OrderParams(signal.symbol, open_side(signal), "LIMIT",
                signal.position_size * 100, signal.entry_price, 0, FALSE,
                signal.leverage, signal.margin_mode)

\* The OrderParams of a signal without zones.
single_order(signal) ==
    OrderParams(signal.symbol, open_side(signal),
                IF signal.entry_price = 0 THEN "MARKET" ELSE "LIMIT",
                signal.position_size * 100, signal.entry_price, 0, FALSE,
                signal.leverage, signal.margin_mode)

\* zone_placed that sets the status and leaves the order id unset.
zone_placed_status_only(zone, result) ==
    IF result.success THEN [zone EXCEPT !.status = "PLACED"] ELSE zone

\* if result.success: zone.order_id = result.order_id; zone.status = 'PLACED'
zone_placed(zone, result) ==
    IF result.success
    THEN [zone EXCEPT !.order_id = result.order_id, !.status = "PLACED"]
    ELSE zone

\* return of execute_signal with an OrderResult.
exec_return(e, result, error_message) ==
    [e EXCEPT !.pc = "returned", !.result = result, !.error_message = error_message]

\* except Exception as e: return OrderResult(success=False, error_message=str(e))
exec_except(e) == exec_return(e, NoResult, "exception")

\* execute_signal up to its first await: the exchange lookup, then either the
\* start of the zone loop or the single order.
ReceiveSignal(signal) ==
    /\ exec.pc = "idle"
    /\ LET e == [ExecIdle EXCEPT !.signal = signal]
       IN  IF ~configured(signal.exchange)
           THEN /\ exec' = exec_return(e, NoResult, not_configured(signal.exchange))
                /\ sent' = <<>>
           ELSE IF Len(signal.entry_zones) > 0
           THEN /\ exec' = [e EXCEPT !.pc = "zones", !.zone_idx = 1]
                /\ sent' = <<>>
           ELSE \E env \in OrderEnvs(Px(100)) :
                  LET order == single_order(signal)
                      r == create_order(order, env)
                      o == [e EXCEPT !.orders = <<order>>]
                  IN  /\ exec' = IF r.raised THEN exec_except(o)
                                 ELSE exec_return(o, r.result, "")
                      /\ sent' = Sent(r, "entry", Ctx(0, signal.position_size, 100, signal.action))
    /\ UNCHANGED <<exchanges, active_signals, loop_vars, stop_orders, close_orders, api_vars>>

\* One iteration of for zone in signal.entry_zones, and after the last one
\* return results[0].
PlaceZoneOrder ==
    /\ exec.pc = "zones"
    /\ \E env \in OrderEnvs(Px(100)) :
         LET signal == exec.signal
             i == exec.zone_idx
             zone == signal.entry_zones[i]
             order == zone_order(signal, zone)
             r == create_order(order, env)
             o == [exec EXCEPT !.orders = Append(@, order)]
             a == [o EXCEPT !.results = Append(@, r.result),
                            !.signal.entry_zones[i] = zone_placed(zone, r.result)]
         IN  /\ exec' = IF r.raised THEN exec_except(o)
                        ELSE IF i < Len(signal.entry_zones)
                        THEN [a EXCEPT !.zone_idx = i + 1]
                        ELSE exec_return(a, a.results[1], "")
             /\ sent' = sent \o Sent(r, "entry", Ctx(i, signal.position_size, zone.percentage, signal.action))
    /\ UNCHANGED <<exchanges, active_signals, loop_vars, stop_orders, close_orders, api_vars>>

\* The caller has the result; the manager is ready for the next signal.
ExecDone ==
    /\ exec.pc = "returned"
    /\ exec' = ExecIdle
    /\ sent' = <<>>
    /\ UNCHANGED <<exchanges, active_signals, loop_vars, stop_orders, close_orders, api_vars>>

Execute ==
    \/ NoRequest /\ \E signal \in TradingSignal : ReceiveSignal(signal)
    \/ PlaceZoneOrder
    \/ ExecDone

\* ------------------------------------------------ tasks on the event loop
\* The monitoring task and one request-driven call at a time run on one
\* asyncio event loop against the BINANCE client and BTCUSDT.  A task runs
\* from one await of an exchange call (asyncio.to_thread) to the next without
\* interruption, self._rate_limit()'s time.sleep included; the exchange call
\* itself runs in a worker thread.
Tasks == {"monitor", "request"}

Await(name) == [kind |-> "await", name |-> name]
Invoke(fn) == [kind |-> "call", name |-> fn]

\* The awaits and awaited coroutines of each coroutine, in the order of its
\* body.  A body may be left after any of them (a condition that does not
\* hold, a return, an exception on its way to the handler).
Body(fn) ==
    CASE fn = "monitor_positions" ->
           <<Invoke("fetch_positions"), Invoke("_check_dynamic_stop_loss"),
             Invoke("_check_take_profit_levels"), Await("sleep")>>
      [] fn = "_check_dynamic_stop_loss" -> <<Invoke("get_market_info"), Invoke("modify_position")>>
      [] fn = "_check_take_profit_levels" ->
           <<Invoke("get_market_info")>> \o [i \in 1..MaxLevels |-> Invoke("create_order")]
      [] fn = "execute_signal" -> [i \in 1..MaxZones |-> Invoke("create_order")]
      [] fn = "close_position" -> <<Invoke("get_positions"), Invoke("create_order")>>
      [] fn = "modify_position" ->
           <<Invoke("get_positions"), Invoke("create_order"), Invoke("create_order")>>
      [] fn = "create_order" ->
           <<Invoke("get_market_info"), Invoke("set_leverage"),
             Invoke("convert_amount_to_contracts"), Await("createOrder")>>
      [] fn = "set_leverage" ->
           <<Invoke("get_market_leverage_info"), Await("setMarginMode"), Await("setLeverage")>>
      [] fn = "convert_amount_to_contracts" ->
           <<Invoke("get_market_info"), Invoke("get_market_leverage_info")>>
      [] fn = "get_market_leverage_info" -> <<Await("fetchMarketLeverageTiers")>>
      [] fn = "get_market_info" -> <<Await("market"), Await("fetchTicker")>>
      [] fn = "get_positions" -> <<Await("fetchPositions")>>
      [] fn = "fetch_positions" -> <<Await("fetchPositions")>>

\* A coroutine that has been called: at is the index in its body of the await
\* or call it stands at (0: none yet); for get_market_info, now_age is the
\* time since its 'now = time.time()' and fetch_age the time since
\* fetchTicker returned.
Frame(fn) == [fn |-> fn, at |-> 0, now_age |-> 0, fetch_age |-> 0]

\* The monitoring task is scheduled, no request is in progress, the market
\* cache is empty.  Time is counted in the sleeps of the monitoring task
\* (waited: the seconds its sleep has lasted): a call of the request may
\* last through any number of them.  _market_cache holds the age of
\* _market_cache_time[symbol] (age), the time since its value was fetched
\* (fetch_age) and the task that stored it; served is the entry a cache hit
\* has just returned.
TasksNew ==
    [stack |-> [t \in Tasks |-> IF t = "monitor" THEN <<Frame("monitor_positions")>> ELSE <<>>],
     state |-> [t \in Tasks |-> IF t = "monitor" THEN "ready" ELSE "idle"],
     waited |-> 0,
     _market_cache |-> <<>>, served |-> <<>>]

\* The timestamp taken when the entry is stored.
stamp_at_store(frame) == 0

\* self._market_cache_time[symbol] = now: the time of the call's start.
stamp(frame) == frame.now_age

\* await asyncio.sleep(1) that never returns.
sleep_never(waited) == FALSE

\* await asyncio.sleep(1) returns after a second.
sleep_over(waited) == waited >= 1

\* The coroutines that can return before their first await or call: a
\* position-cache hit, an order that does not validate, an exchange that is
\* not configured, a position without signal.
returns_early ==
    {"get_positions", "create_order", "execute_signal", "close_position", "modify_position",
     "_check_dynamic_stop_loss", "_check_take_profit_levels"}

\* The next statement of the task that holds the event loop: what its stack,
\* its state and the cache (sh) can be afterwards.  The task goes on to the
\* next await or call of the coroutine on top of the stack, or leaves that
\* coroutine.  monitor_positions never returns: it begins a pass with
\* fetch_positions of the client, leaving its try blocks leads to the sleep,
\* and after the sleep the body starts again.
Advance(t, stack, sh) ==
    LET top == stack[Len(stack)]
        rest == SubSeq(stack, 1, Len(stack) - 1)
        body == Body(top.fn)
        loops == top.fn = "monitor_positions"
        at == IF loops /\ top.at = Len(body) THEN 0 ELSE top.at
        instr == body[at + 1]
        stepped == Append(rest, [top EXCEPT !.at = at + 1])
        hit == /\ instr.name = "get_market_info" /\ sh._market_cache # <<>>
               /\ cache_fresh(sh._market_cache[1].age)
        none == [sh EXCEPT !.served = <<>>]
        running(to, cache) == [stack |-> to, state |-> IF to = <<>> THEN "idle" ELSE "running", sh |-> cache]
        proceed ==
            IF at >= Len(body) THEN {}
            ELSE IF instr.kind = "await" THEN {[stack |-> stepped, state |-> "in_flight", sh |-> none]}
            ELSE IF hit THEN {running(stepped, [sh EXCEPT !.served = sh._market_cache])}
            ELSE {running(Append(stepped, Frame(instr.name)), none)}
        stored == [none EXCEPT !._market_cache =
                      <<[age |-> stamp(top), fetch_age |-> top.fetch_age, by |-> t]>>]
        leave ==
            IF loops
            THEN IF 0 < at /\ at < Len(body) - 1
                 THEN {[stack |-> Append(rest, [top EXCEPT !.at = Len(body)]),
                        state |-> "in_flight", sh |-> none]}
                 ELSE {}
            ELSE IF top.fn = "get_market_info" /\ at = Len(body)
            THEN {running(rest, stored), running(rest, none)}
            ELSE IF at = 0 /\ top.fn \notin returns_early THEN {}
            ELSE {running(rest, none)}
    IN  proceed \cup leave

\* The await task t stands at.
awaited(t) ==
    LET top == tasks.stack[t][Len(tasks.stack[t])] IN Body(top.fn)[top.at].name

\* No task is between two awaits: the event loop is free.
LoopFree == \A t \in Tasks : tasks.state[t] # "running"

\* A request-driven call is made: its coroutine is scheduled.
StartRequest(op) ==
    /\ LoopFree
    /\ tasks.state["request"] = "idle"
    /\ tasks' = [tasks EXCEPT !.stack["request"] = <<Frame(op)>>, !.state["request"] = "ready"]
    /\ UNCHANGED <<exchanges, active_signals, loop_vars, sent, stop_orders, close_orders, exec, call, client, boot>>

\* The await of task t has returned or raised (for fetchTicker see Return;
\* the return of another call changes nothing a task can see before the
\* task runs on).
returned(t) ==
    \/ tasks.state[t] = "ready"
    \/ /\ tasks.state[t] = "in_flight"
       /\ awaited(t) # "fetchTicker"
       /\ awaited(t) = "sleep" => sleep_over(tasks.waited)

\* The event loop runs task t, whose await has returned, or goes on running
\* it: no other task runs before t stands at its next await.
Resume(t) ==
    /\ tasks.state[t] = "running" \/ (LoopFree /\ returned(t))
    /\ \E o \in Advance(t, tasks.stack[t], [_market_cache |-> tasks._market_cache, served |-> tasks.served]) :
          tasks' = [tasks EXCEPT !.stack[t] = o.stack,
                                 !.state[t] = o.state,
                                 !.waited = IF t = "monitor" THEN 0 ELSE @,
                                 !._market_cache = o.sh._market_cache,
                                 !.served = o.sh.served]
    /\ UNCHANGED <<exchanges, active_signals, loop_vars, sent, stop_orders, close_orders, exec, call, client, boot>>

\* fetchTicker returns to task t in its worker thread, whatever runs on the
\* event loop: the value it brings is of this moment.
Return(t) ==
    /\ tasks.state[t] = "in_flight"
    /\ awaited(t) = "fetchTicker"
    /\ tasks' = [tasks EXCEPT !.state[t] = "ready",
                              !.stack[t][Len(tasks.stack[t])].fetch_age = 0]
    /\ UNCHANGED <<exchanges, active_signals, loop_vars, sent, stop_orders, close_orders, exec, call, client, boot>>

\* seconds pass while the monitoring task sleeps, whatever runs on the event
\* loop.
Pass(seconds) ==
    LET older(age) == Min(age + seconds, CACHE_DURATION) IN
    /\ tasks.state["monitor"] = "in_flight" /\ awaited("monitor") = "sleep"
    /\ ~sleep_over(tasks.waited)
    /\ tasks' = [tasks EXCEPT
          !.waited = 1,
          !.stack = [t \in Tasks |->
                       [i \in DOMAIN tasks.stack[t] |->
                          IF tasks.stack[t][i].fn = "get_market_info"
                          THEN [tasks.stack[t][i] EXCEPT !.now_age = older(@), !.fetch_age = older(@)]
                          ELSE tasks.stack[t][i]]],
          !._market_cache =
              [i \in DOMAIN tasks._market_cache |->
                 [tasks._market_cache[i] EXCEPT !.age = older(@), !.fetch_age = older(@)]]]
    /\ UNCHANGED <<exchanges, active_signals, loop_vars, sent, stop_orders, close_orders, exec, call, client, boot>>

RequestOps == {"execute_signal", "close_position", "modify_position"}

Loop ==
    \/ \E op \in RequestOps : StartRequest(op)
    \/ \E t \in Tasks : Resume(t)
    \/ \E t \in Tasks : Return(t)
    \/ Pass(1)

\* The same with time passing CACHE_DURATION at a time, so that an entry is
\* fresh or expired.
CoarseLoop ==
    \/ \E op \in RequestOps : StartRequest(op)
    \/ \E t \in Tasks : Resume(t)
    \/ \E t \in Tasks : Return(t)
    \/ Pass(CACHE_DURATION)

Init ==
    /\ exchanges = <<"BINANCE", "OKX">>
    /\ active_signals = [k \in Keys |-> NoSignal]
    /\ pc = "exchange"
    /\ ex_idx = 1
    /\ positions = <<>>
    /\ pos_idx = 1
    /\ checked = {}
    /\ ran = {}
    /\ failed = {}
    /\ sent = <<>>
    /\ stop_orders = [k \in Keys |-> NoStops]
    /\ close_orders = [k \in Keys |-> NoCloses]
    /\ exec = ExecIdle
    /\ call = CallIdle
    /\ client = ClientNew
    /\ boot = BootDone
    /\ tasks = TasksNew

Next == Monitor \/ Register

Spec == Init /\ [][Next]_vars

\* Fairness of the monitoring task: the event loop keeps scheduling it and every
\* exchange call it awaits returns or raises.
LiveSpec == Init /\ [][Next]_vars /\ WF_vars(Monitor)

\* The monitoring task and request-driven calls side by side, second by
\* second.
TaskSpec == Init /\ [][Loop]_vars

\* The event loop runs every task whose await has returned (its ready queue
\* is first in, first out: a task is not passed over for ever by another one
\* that becomes ready again and again), every exchange call returns or
\* raises, and time passes: a task holds the loop between two awaits for a
\* moment only, which delays neither for ever.
TaskLiveSpec ==
    /\ Init /\ [][CoarseLoop]_vars
    /\ \A t \in Tasks : SF_vars(Resume(t)) /\ WF_vars(Return(t))
    /\ WF_vars(Pass(CACHE_DURATION))

\* ----------------------------------------------------- ExchangeClient.create_order
\* The orders handed to create_order: every field present or missing.
Orders ==
    [symbol : {"BTCUSDT", ""}, side : {"buy", ""},
     order_type : {"MARKET", "LIMIT", "STOP", "TAKE_PROFIT", "STOP_MARKET", ""},
     amount : {0, 250}, price : {0, Px(100)}, stop_price : {0, Px(98)},
     reduce_only : {FALSE}, leverage : {0, 125}, margin_mode : {"cross"}]

\* A direct call of create_order on the BINANCE client; every exchange call
\* it makes takes latency to return.
CreateOrder(order, env, latency) ==
    /\ NoRequest
    /\ LET r == create_order(order, env)
           t == outbound(r.steps, client.since_request, client.since_call, latency)
       IN  /\ call' = [op |-> "create_order",
                       args |-> [order |-> order, env |-> env, latency |-> latency,
                                 before |-> client],
                       out |-> [raised |-> r.raised, submitted |-> r.submitted,
                                result |-> r.result, steps |-> r.steps, gaps |-> t.gaps]]
           /\ client' = after_calls(client, r.steps, latency)
           /\ sent' = Sent(r, "order", Ctx(0, 0, 0, "NONE"))
    /\ UNCHANGED <<exchanges, active_signals, loop_vars, stop_orders, close_orders, exec, boot, tasks>>

\* Every order against every answer of an exchange that takes at least the
\* request interval to answer.
ClientCalls ==
    \/ NoRequest /\ \E order \in Orders, env \in OrderEnv : CreateOrder(order, env, min_request_interval)
    \/ CallDone

ClientSpec == Init /\ [][ClientCalls]_vars

\* ------------------------------------------------ the client after initialize
\* MarketInfo.from_exchange_market(market), without ticker: last_price is
\* None.
MarketWithoutTicker == <<0>>

\* ExchangeClient._load_markets: every market load_markets returns is stored
\* as a MarketInfo built without ticker, under the time of the loop; a failed
\* load raises and stores nothing.
_load_markets(cl, ok) ==
    IF ok THEN [cl EXCEPT !._market_cache = MarketWithoutTicker, !.market_age = 0] ELSE cl

\* await client.initialize(): _setup_exchange, then _load_markets; False when
\* either fails.
ClientInitialize ==
    /\ NoRequest
    /\ \E setup \in BOOLEAN, loaded \in BOOLEAN :
         /\ call' = [op |-> "initialize",
                     args |-> [setup |-> setup, loaded |-> loaded, before |-> client],
                     out |-> [raised |-> FALSE, value |-> setup /\ loaded]]
         /\ client' = IF setup THEN _load_markets(client, loaded) ELSE client
    /\ sent' = <<>>
    /\ UNCHANGED <<exchanges, active_signals, loop_vars, stop_orders, close_orders, exec, boot, tasks>>

\* create_order on the client for a symbol that has an entry in the market
\* cache; get_market_info answers from the cache or from the exchange, whose
\* ticker reports env.last (0: a ticker without last price).
CreateOrderLoaded(order, env, ok) ==
    /\ NoRequest
    /\ client._market_cache # <<>>
    /\ LET m == get_market_info(client, env.last, ok)
           last == IF m.value = <<>> THEN 0 ELSE m.value[1]
           r == create_order(order, [env EXCEPT !.last = last])
           t == outbound(r.steps, client.since_request, client.since_call, min_request_interval)
       IN  /\ call' = [op |-> "create_order",
                       args |-> [order |-> order, env |-> env, latency |-> min_request_interval,
                                 before |-> client],
                       out |-> [raised |-> r.raised, submitted |-> r.submitted,
                                result |-> r.result, steps |-> r.steps, gaps |-> t.gaps]]
           /\ client' = IF validate(order) THEN after_calls(m.client, r.steps, min_request_interval)
                        ELSE client
           /\ sent' = Sent(r, "order", Ctx(0, 0, 0, "NONE"))
    /\ UNCHANGED <<exchanges, active_signals, loop_vars, stop_orders, close_orders, exec, boot, tasks>>

\* The answers of the exchange to one create_order call.
LoadedEnvs == OrderEnvs(0) \cup OrderEnvs(Px(104)) \cup OrderEnvs(Px(106))

\* The client is initialized, then serves orders and market reads while time
\* passes.
LoadedCalls ==
    \/ ClientInitialize
    \/ NoRequest /\ \E order \in Orders, env \in LoadedEnvs, ok \in BOOLEAN : CreateOrderLoaded(order, env, ok)
    \/ GetMarketInfo
    \/ CallDone
    \/ Tick

LoadSpec == Init /\ [][LoadedCalls]_vars

\* await client.cancel_order(order_id, symbol): rate-limited, then cancelOrder;
\* a failure is caught and gives False.
CancelOrder(ok, latency) ==
    /\ NoRequest
    /\ LET t == outbound(<<"cancelOrder">>, client.since_request, client.since_call, latency)
       IN  /\ call' = [op |-> "cancel_order", args |-> [latency |-> latency, before |-> client],
                       out |-> [raised |-> FALSE, result |-> ok, steps |-> <<"cancelOrder">>,
                                gaps |-> t.gaps]]
           /\ client' = after_calls(client, <<"cancelOrder">>, latency)
    /\ sent' = <<>>
    /\ UNCHANGED <<exchanges, active_signals, loop_vars, stop_orders, close_orders, exec, boot, tasks>>

\* Half a request interval passes.
Elapse ==
    /\ client.since_request < min_request_interval \/ client.since_call < min_request_interval
    /\ client' = [client EXCEPT !.since_request = Min(@ + 1, min_request_interval),
                                !.since_call = Min(@ + 1, min_request_interval)]
    /\ UNCHANGED <<exchanges, active_signals, loop_vars, stop_orders, close_orders, exec, call, boot, tasks, sent>>

\* The orders whose outbound calls are timed: a valid MARKET order and one
\* without amount.
TimedOrders ==
    {OrderParams("BTCUSDT", "buy", "MARKET", amount, 0, 0, FALSE, 0, "cross") : amount \in {0, 250}}

\* Calls of one client in quick succession.
TimedCalls ==
    \/ NoRequest /\ \E order \in TimedOrders, env \in OrderEnvs(Px(104)), latency \in Latencies :
          CreateOrder(order, env, latency)
    \/ NoRequest /\ \E ok \in BOOLEAN, latency \in Latencies : CancelOrder(ok, latency)
    \/ CallDone
    \/ Elapse

RateSpec == Init /\ [][TimedCalls]_vars

\* execute_signal on its own: the calls made to the execution manager, whatever
\* the monitor does meanwhile (it shares no state that execute_signal reads
\* or writes).
\* The other requests to the manager, against a client whose cache ages and
\* an exchange whose position changes.
ManagerCalls ==
    \/ NoRequest /\ \E exchange \in CallExchanges : ClosePosition(exchange, "BTCUSDT")
    \/ NoRequest /\ \E exchange \in CallExchanges, stop_loss \in {0, Px(98)}, take_profit \in {0, Px(110)} :
          ModifyPosition(exchange, "BTCUSDT", stop_loss, take_profit)
    \/ CallDone
    \/ Tick
    \/ PositionChange

ManagerSpec == Init /\ [][ManagerCalls]_vars

\* The requests to the manager one after the other, without the passing of time.
Requests ==
    \/ Execute
    \/ NoRequest /\ \E exchange \in CallExchanges : ClosePosition(exchange, "BTCUSDT")
    \/ NoRequest /\ \E exchange \in CallExchanges, stop_loss \in {0, Px(98)}, take_profit \in {0, Px(110)} :
          ModifyPosition(exchange, "BTCUSDT", stop_loss, take_profit)
    \/ CallDone

ExecSpec == Init /\ [][Requests]_vars

\* The cache-first reads of one client while time passes and the position
\* changes on the exchange.
CacheReads ==
    \/ GetMarketInfo
    \/ GetBalance
    \/ GetPositions("BTCUSDT")
    \/ CallDone
    \/ Tick
    \/ PositionChange

CacheSpec == Init /\ [][CacheReads]_vars

\* Writes and reads of one client while time passes and the position changes
\* on the exchange.
WritesAndReads ==
    \/ NoRequest /\ ClosePosition("BINANCE", "BTCUSDT")
    \/ NoRequest /\ \E order \in TimedOrders, env \in OrderEnvs(Px(104)) :
          CreateOrder(order, env, min_request_interval)
    \/ NoRequest /\ \E ok \in BOOLEAN : CancelOrder(ok, min_request_interval)
    \/ GetPositions("BTCUSDT")
    \/ GetBalance
    \/ CallDone
    \/ Tick
    \/ PositionChange

WriteSpec == Init /\ [][WritesAndReads]_vars

\* get_positions with and without symbol.
PositionReads ==
    \/ \E symbol \in {"BTCUSDT", ""} : GetPositions(symbol)
    \/ CallDone
    \/ Tick
    \/ PositionChange

PositionsSpec == Init /\ [][PositionReads]_vars

\* ------------------------------------------------- TradingLogic: normalization
\* Prices of this section are in hundredths (Cents); 0 is None or a missing
\* key.  A percentage is the fraction num/den: the float division of the
\* renormalization is the exact quotient (its rounding error, about 1e-16, is
\* far below every tolerance here).
Cents(x) == 100 * x

Abs(x) == IF x < 0 THEN 0 - x ELSE x

Max(a, b) == IF a > b THEN a ELSE b

Pct(hundredths) == [num |-> hundredths, den |-> 100]

RawLevel(price, hundredths) == [price |-> price, percentage |-> Pct(hundredths)]

\* Lists of up to n elements of S.
ListsUpTo(S, n) == UNION {[1..k -> S] : k \in 0..n}

RECURSIVE SumNum(_)
SumNum(levels) ==
    IF levels = <<>> THEN 0 ELSE Head(levels).percentage.num + SumNum(Tail(levels))

RECURSIVE SumPrice(_)
SumPrice(levels) == IF levels = <<>> THEN 0 ELSE Head(levels).price + SumPrice(Tail(levels))

RECURSIVE MaxPrice(_)
MaxPrice(levels) ==
    IF Len(levels) = 1 THEN levels[1].price ELSE Max(Head(levels).price, MaxPrice(Tail(levels)))

RECURSIVE MinPrice(_)
MinPrice(levels) ==
    IF Len(levels) = 1 THEN levels[1].price ELSE Min(Head(levels).price, MinPrice(Tail(levels)))

\* The result of a step that returns None.
NoneSignal ==
    [none |-> TRUE, action |-> "NONE", entry_price |-> 0, entry_zones |-> <<>>,
     take_profit_levels |-> <<>>, stop_loss |-> 0,
     position_size |-> 0, leverage |-> 0, confidence |-> 0]

\* A JSON value of position_size, leverage or confidence: a number, or
\* something float() raises on (confidence is in hundredths).
Number(value) == [number |-> TRUE, value |-> value]
NotANumber == [number |-> FALSE, value |-> 0]
numeric_fields == {"position_size", "leverage", "confidence"}

\* float(value) does not raise.
coercible(raw) == raw.number

\* The entries of a zone or level list all carry price and percentage.
pairs(list) == \A i \in DOMAIN list : {"price", "percentage"} \subseteq DOMAIN list[i]

\* _validate_json_data: the required fields and their values, the zone and
\* level entries, and float() of each numeric field that is present.
_validate_json_data(data) ==
    /\ data.exchange \in {"BINANCE", "OKX"}
    /\ data.symbol # ""
    /\ data.action \in {"OPEN_LONG", "OPEN_SHORT", "CLOSE"}
    /\ pairs(data.entry_zones)
    /\ pairs(data.take_profit_levels)
    /\ \A field \in numeric_fields : field \in DOMAIN data => coercible(data[field])

\* _normalize_numbers: float() of the prices, percentages and the stop, which
\* leaves the numbers the candidates carry as they are, and a numeric field
\* that float() raises on is removed.  Nothing else is done to the zones and
\* levels.
_normalize_numbers(data) ==
    LET kept == {field \in DOMAIN data : field \in numeric_fields => coercible(data[field])}
    IN  [field \in kept |-> data[field]]

\* data.get(field, default) of a numeric field.
get(data, field, default) == IF field \in DOMAIN data THEN data[field].value ELSE default

\* isclose(total, 1.0, rel_tol=1e-5) for total = num/den, den > 0:
\* |total - 1| <= 1e-5 * max(|total|, 1).
isclose_one(num, den) == Abs(num - den) * 100000 <= Max(Abs(num), den)

\* renormalized that leaves the percentages as they are.
not_renormalized(levels, total) == levels

\* tp.percentage = tp.percentage / total_percentage, for percentages over 100.
renormalized(levels, total) ==
    [i \in DOMAIN levels |-> [levels[i] EXCEPT !.percentage = [num |-> @.num, den |-> total]]]

\* TradingSignal.is_valid: an entry price or entry zones, and for an action
\* other than CLOSE a take-profit level and a stop-loss.
is_valid(signal) ==
    /\ signal.entry_price # 0 \/ signal.entry_zones # <<>>
    /\ signal.action # "CLOSE" => (signal.take_profit_levels # <<>> /\ signal.stop_loss # 0)

\* The entries EntryZone(...) or TakeProfitLevel(...) is built from: an entry
\* without price or percentage raises KeyError and is skipped.
usable(list) == SelectSeq(list, LAMBDA entry : {"price", "percentage"} \subseteq DOMAIN entry)

\* The entry price taken whether or not the candidate carries zones.
single_entry_price_both(data) == data.entry_price

\* The elif: entry_price is read only when the candidate carries no zone list
\* or an empty one.
single_entry_price(data) == IF data.entry_zones # <<>> THEN 0 ELSE data.entry_price

\* _convert_to_trading_signal: zones take precedence over entry_price; the
\* take-profit percentages are divided by their sum when it is not close to
\* 1 (a sum of 0 raises ZeroDivisionError: None); the signal is returned if
\* is_valid() accepts it.
_convert_to_trading_signal(data) ==
    LET entry_zones == usable(data.entry_zones)
        entry_price == single_entry_price(data)
        tps == usable(data.take_profit_levels)
        total == SumNum(tps)
        signal == [none |-> FALSE, action |-> data.action, entry_price |-> entry_price,
                   entry_zones |-> entry_zones,
                   take_profit_levels |-> IF tps = <<>> \/ isclose_one(total, 100) THEN tps
                                          ELSE renormalized(tps, total),
                   stop_loss |-> data.stop_loss,
                   position_size |-> get(data, "position_size", 50),
                   leverage |-> get(data, "leverage", 10),
                   confidence |-> get(data, "confidence", 80)]
    IN  IF entry_zones = <<>> /\ entry_price = 0 THEN NoneSignal
        ELSE IF \E field \in numeric_fields \cap DOMAIN data : ~coercible(data[field]) THEN NoneSignal
        ELSE IF tps # <<>> /\ ~isclose_one(total, 100) /\ total = 0 THEN NoneSignal
        ELSE IF ~is_valid(signal) THEN NoneSignal
        ELSE signal

\* The entry reference: entry_price, or the mean of the zone prices.
entry_reference(signal) ==
    IF signal.entry_price = 0 /\ signal.entry_zones # <<>>
    THEN SumPrice(signal.entry_zones) \div Len(signal.entry_zones)
    ELSE signal.entry_price

\* _validate_risk_ratio: reward / risk >= 1.5 with a positive risk.
_validate_risk_ratio(signal) ==
    IF signal.action = "CLOSE" THEN TRUE
    ELSE IF signal.stop_loss = 0 \/ signal.take_profit_levels = <<>> THEN FALSE
    ELSE
      LET entry_price == entry_reference(signal)
          reward == IF signal.action = "OPEN_LONG"
                    THEN MaxPrice(signal.take_profit_levels) - entry_price
                    ELSE entry_price - MinPrice(signal.take_profit_levels)
          risk == IF signal.action = "OPEN_LONG" THEN entry_price - signal.stop_loss
                  ELSE signal.stop_loss - entry_price
      IN  risk > 0 /\ 2 * reward >= 3 * risk

\* process_message from the parsed response on.  The risk check is
\* 'risk_ratio_valid = True', its call being commented out.
process_message(data) ==
    IF ~_validate_json_data(data) THEN NoneSignal
    ELSE LET signal == _convert_to_trading_signal(_normalize_numbers(data))
         IN  IF ~signal.none /\ is_valid(signal) THEN signal ELSE NoneSignal

\* _calculate_default_stop_loss: 2% of the entry reference away from it.
_calculate_default_stop_loss(signal) ==
    LET entry_price == entry_reference(signal)
        stop_distance == (entry_price * 2) \div 100
    IN  IF signal.action = "OPEN_LONG" THEN entry_price - stop_distance
        ELSE entry_price + stop_distance

\* _calculate_default_take_profits with every target at 1R.
default_take_profits_1R(signal) ==
    LET entry_price == entry_reference(signal)
        stop_distance == Abs(entry_price - signal.stop_loss)
        price == IF signal.action = "OPEN_LONG" THEN entry_price + stop_distance
                 ELSE entry_price - stop_distance
    IN  <<RawLevel(price, 40), RawLevel(price, 30), RawLevel(price, 30)>>

\* _calculate_default_take_profits: 2R, 3R and 4R with 40%, 30%, 30%.
_calculate_default_take_profits(signal) ==
    LET entry_price == entry_reference(signal)
        stop_distance == Abs(entry_price - signal.stop_loss)
        at(mult) == IF signal.action = "OPEN_LONG" THEN entry_price + stop_distance * mult
                    ELSE entry_price - stop_distance * mult
    IN  <<RawLevel(at(2), 40), RawLevel(at(3), 30), RawLevel(at(4), 30)>>

\* _validate_and_complete_signal: None, or the signal with the missing stop
\* and the missing take-profit levels filled in.
_validate_and_complete_signal(signal) ==
    IF signal.entry_price = 0 /\ signal.entry_zones = <<>> THEN NoneSignal
    ELSE IF signal.action \notin {"OPEN_LONG", "OPEN_SHORT", "CLOSE"} THEN NoneSignal
    ELSE
      LET with_stop == IF signal.stop_loss = 0 /\ signal.action # "CLOSE"
                       THEN [signal EXCEPT !.stop_loss = _calculate_default_stop_loss(signal)]
                       ELSE signal
          completed == IF with_stop.take_profit_levels = <<>> /\ signal.action # "CLOSE"
                       THEN [with_stop EXCEPT
                               !.take_profit_levels = _calculate_default_take_profits(with_stop)]
                       ELSE with_stop
      IN  IF _validate_risk_ratio(completed) THEN completed ELSE NoneSignal

\* validate_technical_levels: the stop on the loss side, every take-profit on
\* the profit side, and no two zone prices closer than 0.001 (prices here are
\* whole hundredths, so: no two equal).
validate_technical_levels(signal) ==
    LET entry_price == entry_reference(signal)
        long == signal.action = "OPEN_LONG"
    IN  /\ signal.stop_loss # 0 =>
              IF long THEN signal.stop_loss < entry_price ELSE signal.stop_loss > entry_price
        /\ \A i \in DOMAIN signal.take_profit_levels :
              IF long THEN signal.take_profit_levels[i].price > entry_price
              ELSE signal.take_profit_levels[i].price < entry_price
        /\ \A i, j \in DOMAIN signal.entry_zones :
              i # j => signal.entry_zones[i].price # signal.entry_zones[j].price

\* The zones and levels a candidate may carry.  With stop 98 and entry 100
\* the target 102.4 has ratio 1.2 and 104 has ratio 2; 97.6 and 96 are their
\* mirror images for a short with stop 102.
RawZones == {[price |-> price, percentage |-> Pct(p)] : price \in {Cents(99), Cents(101)}, p \in {30, 50, 70}}
RawLevels == {RawLevel(price, p) : price \in {10240, Cents(104), 9760}, p \in {0, 40, 60}}

\* The candidates: with zones of every percentage and one list of levels, or
\* with an entry price and levels of every price and percentage.
Candidates ==
    [exchange : {"BINANCE"}, symbol : {"BTCUSDT"}, action : {"OPEN_LONG", "OPEN_SHORT", "CLOSE"},
     entry_price : {0, Cents(100)}, entry_zones : ListsUpTo(RawZones, MaxZones),
     take_profit_levels : {<<RawLevel(Cents(104), 60), RawLevel(Cents(106), 40)>>},
     stop_loss : {0, Cents(98)}]
    \cup
    [exchange : {"BINANCE", "BYBIT"}, symbol : {"BTCUSDT"}, action : {"OPEN_LONG", "OPEN_SHORT", "CLOSE"},
     entry_price : {Cents(100)}, entry_zones : {<<>>},
     take_profit_levels : ListsUpTo(RawLevels, MaxLevels),
     stop_loss : {0, Cents(98), Cents(102)}]
    \cup
    [exchange : {"BINANCE"}, symbol : {"BTCUSDT", ""}, action : {"OPEN_LONG"},
     entry_price : {Cents(100)}, entry_zones : {<<>>, <<[price |-> Cents(99)]>>},
     take_profit_levels : {<<RawLevel(Cents(104), 100)>>, <<[price |-> Cents(104)]>>},
     stop_loss : {Cents(98)},
     position_size : {Number(20), NotANumber}, leverage : {Number(5), NotANumber},
     confidence : {Number(90), NotANumber}]
    \cup
    [exchange : {"BINANCE"}, symbol : {"BTCUSDT"}, action : {"OPEN_LONG"},
     entry_price : {Cents(100)}, entry_zones : {<<>>},
     take_profit_levels : {<<RawLevel(Cents(104), 100)>>},
     stop_loss : {Cents(98)}, leverage : {Number(5), NotANumber}]

\* The signals handed to _validate_and_complete_signal.
Signals ==
    [none : {FALSE}, action : {"OPEN_LONG", "OPEN_SHORT", "CLOSE"},
     entry_price : {0, Cents(100)},
     entry_zones : {<<>>, <<[price |-> Cents(99), percentage |-> Pct(50)],
                            [price |-> Cents(101), percentage |-> Pct(50)]>>},
     take_profit_levels : {<<>>, <<RawLevel(10240, 100)>>, <<RawLevel(Cents(104), 100)>>,
                           <<RawLevel(9760, 100)>>},
     stop_loss : {0, Cents(98), Cents(102), Cents(100)},
     position_size : {50}, leverage : {10}, confidence : {80}]

\* signal = logic.process_message(message), from the parsed response on.
ProcessMessage(data) ==
    /\ NoRequest
    /\ call' = [op |-> "process_message", args |-> [data |-> data],
                out |-> [valid |-> _validate_json_data(data), signal |-> process_message(data)]]
    /\ sent' = <<>>
    /\ UNCHANGED <<exchanges, active_signals, loop_vars, stop_orders, close_orders, exec, client, boot, tasks>>

\* signal = self._convert_to_trading_signal(data)
ConvertToTradingSignal(data) ==
    /\ NoRequest
    /\ call' = [op |-> "_convert_to_trading_signal", args |-> [data |-> data],
                out |-> [signal |-> _convert_to_trading_signal(data)]]
    /\ sent' = <<>>
    /\ UNCHANGED <<exchanges, active_signals, loop_vars, stop_orders, close_orders, exec, client, boot, tasks>>

\* logic.validate_technical_levels(signal)
ValidateTechnicalLevels(signal) ==
    /\ NoRequest
    /\ call' = [op |-> "validate_technical_levels", args |-> [signal |-> signal],
                out |-> [valid |-> validate_technical_levels(signal)]]
    /\ sent' = <<>>
    /\ UNCHANGED <<exchanges, active_signals, loop_vars, stop_orders, close_orders, exec, client, boot, tasks>>

\* signal = logic._validate_and_complete_signal(signal)
ValidateAndComplete(signal) ==
    /\ NoRequest
    /\ call' = [op |-> "_validate_and_complete_signal", args |-> [signal |-> signal],
                out |-> [signal |-> _validate_and_complete_signal(signal)]]
    /\ sent' = <<>>
    /\ UNCHANGED <<exchanges, active_signals, loop_vars, stop_orders, close_orders, exec, client, boot, tasks>>

Normalize ==
    \/ NoRequest /\ \E data \in Candidates : ProcessMessage(data)
    \/ NoRequest /\ \E signal \in Signals : ValidateAndComplete(signal)
    \/ NoRequest /\ \E data \in Candidates : ConvertToTradingSignal(data)
    \/ NoRequest /\ \E signal \in Signals : ValidateTechnicalLevels(signal)
    \/ CallDone

NormSpec == Init /\ [][Normalize]_vars

\* The manager after construction: no client registered.
Constructed ==
    /\ exchanges = <<>>
    /\ active_signals = [k \in Keys |-> NoSignal]
    /\ pc = "exchange"
    /\ ex_idx = 1
    /\ positions = <<>>
    /\ pos_idx = 1
    /\ checked = {}
    /\ ran = {}
    /\ failed = {}
    /\ sent = <<>>
    /\ stop_orders = [k \in Keys |-> NoStops]
    /\ close_orders = [k \in Keys |-> NoCloses]
    /\ exec = ExecIdle
    /\ call = CallIdle
    /\ client = ClientNew
    /\ boot = BootNew
    /\ tasks = TasksNew

\* initialize, then requests to close the position on either exchange.
Startup ==
    \/ Initialize
    \/ boot.done /\ NoRequest /\ \E exchange \in ExchangeNames : ClosePosition(exchange, "BTCUSDT")
    \/ CallDone

InitSpec == Constructed /\ [][Startup]_vars

\* ------------------------------------------------------------------ claims
Level(key, i) == active_signals[key].take_profit_levels[i]

LevelIdx(key) == 1..Len(active_signals[key].take_profit_levels)

\* The key of the signal the handler that has just run looked up, for an entry of sent.
SentKey(e) == signal_key(exchanges[ex_idx], e.params.symbol)

TpSent == {i \in 1..Len(sent) : sent[i].kind = "tp"}

\* C1: the stops applied through modify_position for a dynamic_sl signal only
\* tighten: each applied stop is no lower than the one applied before it for
\* OPEN_LONG, no higher for OPEN_SHORT.
C1_StopsOnlyTighten ==
    \A key \in Keys :
        (active_signals[key].dynamic_sl /\ stop_orders[key][1] # 0) =>
            IF active_signals[key].action = "OPEN_LONG"
            THEN stop_orders[key][2] >= stop_orders[key][1]
            ELSE stop_orders[key][2] <= stop_orders[key][1]

\* C2: when the pass of an exchange is over, both checks have run for every
\* open position (size # 0) that was returned for it.
C2_EveryOpenPositionChecked ==
    (pc \in {"exchange", "sleep"}) =>
        \A j \in 1..Len(positions) : positions[j].size # 0 => j \in checked

\* C3: a take-profit close is a reduce-only MARKET order on the side opposite to
\* the signal, whose contract quantity is position.size * level.percentage.
C3_TakeProfitOrderQuantity ==
    \A i \in TpSent :
        /\ sent[i].params.type = "MARKET"
        /\ sent[i].params.reduceOnly
        /\ sent[i].params.side = (IF sent[i].ctx.action = "OPEN_LONG" THEN "sell" ELSE "buy")
        /\ sent[i].params.amount * 100
             = sent[i].ctx.size * sent[i].ctx.percentage * Pow10(AmountPrecision)

\* C4: a take-profit level that is hit gets no further close order: no level
\* has more than one successful close order, and a close order the exchange
\* refused was never sent for a level that had been closed before.
C4_HitLevelNeverClosedAgain ==
    /\ \A key \in Keys : \A i \in DOMAIN close_orders[key] : close_orders[key][i] <= 1
    /\ \A i \in TpSent :
          ~sent[i].accepted => close_orders[SentKey(sent[i])][sent[i].ctx.index] = 0

\* C5: a level is marked hit, with its hit time, only by a close order that
\* succeeded; after a failed close order the level is still not hit and is
\* triggered again at its target price.
C5_HitOnlyOnSuccess ==
    /\ \A key \in Keys : \A i \in LevelIdx(key) :
          /\ Level(key, i).is_hit => close_orders[key][i] >= 1
          /\ Level(key, i).is_hit <=> Level(key, i).hit_time # 0
    /\ \A i \in TpSent :
          ~sent[i].accepted =>
              LET key == SentKey(sent[i])
                  n == sent[i].ctx.index
              IN  /\ ~Level(key, n).is_hit
                  /\ n \in tp_triggered(active_signals[key], Level(key, n).price)

\* C6: at the end of a loop iteration, when the pass of exchange A raised, the
\* pass of every other configured exchange B has run in that iteration.
C6_FailureIsolatedPerExchange ==
    pc = "sleep" =>
        \A a \in failed : \A j \in 1..Len(exchanges) : exchanges[j] # a => exchanges[j] \in ran

PassStart == pc = "exchange" /\ ex_idx = 1 /\ ran = {} /\ failed = {}

\* C7: after the pass of an exchange raised, and after the exchange refused an
\* order of a symbol, the loop eventually starts its next pass.
C7_LoopNeverStops ==
    (failed # {} \/ \E i \in 1..Len(sent) : ~sent[i].accepted) ~> PassStart

ExecReturned ==
    exec.pc = "returned" /\ exec.error_message # "Exchange " \o exec.signal.exchange \o " not configured"

\* C8: once execute_signal has returned a successful result for an opening
\* signal, the signal is in active_signals under the key of its exchange and
\* symbol.
C8_ExecutedSignalIsActive ==
    (ExecReturned /\ exec.result.success /\ exec.signal.action \in {"OPEN_LONG", "OPEN_SHORT"}) =>
        active_signals[signal_key(exec.signal.exchange, exec.signal.symbol)].action = exec.signal.action

\* C9: when execute_signal has returned for a signal with entry zones, an order
\* has been handed to the exchange client for every zone, also for the zones
\* after one whose order failed.
C9_AllZonesAttempted ==
    (ExecReturned /\ Len(exec.signal.entry_zones) > 0) =>
        \A j \in 1..Len(exec.signal.entry_zones) : j <= Len(exec.orders)

\* C10: when execute_signal returns for an opening signal with entry zones, the
\* orders it has built are one LIMIT order per zone, in zone order, of amount
\* position_size * zone.percentage at zone.price, buy for OPEN_LONG and sell for
\* OPEN_SHORT, with the signal's leverage and margin mode.
C10_OneLimitOrderPerZone ==
    (ExecReturned /\ Len(exec.signal.entry_zones) > 0 /\ exec.signal.action \in {"OPEN_LONG", "OPEN_SHORT"}) =>
        /\ Len(exec.orders) = Len(exec.signal.entry_zones)
        /\ \A j \in 1..Len(exec.orders) :
              /\ exec.orders[j].order_type = "LIMIT"
              /\ exec.orders[j].amount = exec.signal.position_size * exec.signal.entry_zones[j].percentage
              /\ exec.orders[j].price = exec.signal.entry_zones[j].price
              /\ exec.orders[j].side = (IF exec.signal.action = "OPEN_LONG" THEN "buy" ELSE "sell")
              /\ exec.orders[j].leverage = exec.signal.leverage
              /\ exec.orders[j].margin_mode = exec.signal.margin_mode

\* C11: when execute_signal has returned for a signal without entry zones, it
\* has built exactly one order, MARKET if entry_price is unset and LIMIT at
\* entry_price otherwise, for the full position_size; at most one request went
\* to the exchange, and exactly that order if the result is successful.
C11_SingleOrderWithoutZones ==
    (ExecReturned /\ Len(exec.signal.entry_zones) = 0) =>
        /\ Len(exec.orders) = 1
        /\ exec.orders[1].order_type = (IF exec.signal.entry_price = 0 THEN "MARKET" ELSE "LIMIT")
        /\ exec.signal.entry_price # 0 => exec.orders[1].price = exec.signal.entry_price
        /\ exec.orders[1].amount = exec.signal.position_size * 100
        /\ Len(sent) <= 1
        /\ exec.result.success =>
              /\ Len(sent) = 1
              /\ sent[1].params.type = exec.orders[1].order_type
              /\ sent[1].params.price = exec.signal.entry_price

\* No client is registered under the name.
Unconfigured(exchange) == \A i \in DOMAIN exchanges : exchanges[i] # exchange

\* C12: execute_signal, close_position and modify_position called for an
\* exchange without a registered client return a failure at once: a failed
\* result whose message names the exchange (False for modify_position), no
\* exception, no position query and no request to any exchange.
C12_UnconfiguredFailsFast ==
    /\ (exec.pc = "returned" /\ Unconfigured(exec.signal.exchange)) =>
          /\ ~exec.result.success
          /\ exec.error_message = "Exchange " \o exec.signal.exchange \o " not configured"
          /\ exec.orders = <<>> /\ sent = <<>>
    /\ (call.op = "close_position" /\ Unconfigured(call.args.exchange)) =>
          /\ ~call.out.success /\ ~call.out.raised
          /\ call.out.error_message = "Exchange " \o call.args.exchange \o " not configured"
          /\ ~call.out.fetched /\ call.out.submitted = <<>> /\ sent = <<>>
    /\ (call.op = "modify_position" /\ Unconfigured(call.args.exchange)) =>
          /\ ~call.out.success /\ ~call.out.raised
          /\ ~call.out.fetched /\ call.out.attempted = <<>>
          /\ call.out.submitted = <<>> /\ sent = <<>>

\* C13: self.exchanges holds only clients whose key is configured and whose
\* initialize() returned true (setup, balance probe, both market loads and the
\* session all succeeded); a request for any other exchange reaches no client:
\* no position query, no order; and initialize returned true exactly when at
\* least one client was registered.
C13_OnlyInitializedClientsRegistered ==
    /\ ~boot.done => exchanges = <<>>
    /\ \A i \in DOMAIN exchanges :
          /\ boot.config[IF exchanges[i] = "BINANCE" THEN "binance_testnet_api_key" ELSE "okx_testnet_api_key"]
          /\ boot.outcome[exchanges[i]] = "ok"
    /\ boot.done => (boot.result <=> exchanges # <<>>)
    /\ (call.op = "close_position" /\ boot.outcome[call.args.exchange] # "ok") =>
          /\ ~call.out.fetched /\ call.out.submitted = <<>> /\ sent = <<>>

\* A close_position call on a configured exchange whose account held no
\* position for the symbol when the call was made.
CloseWithoutPosition ==
    /\ call.op = "close_position" /\ ~Unconfigured(call.args.exchange)
    /\ call.args.before.position.size = 0

\* The outcome of the close_position call is the not-found failure: a failed
\* result with the message, no exception, no order.
NotFoundOutcome ==
    /\ ~call.out.success /\ ~call.out.raised
    /\ call.out.error_message = "No position found for " \o call.args.symbol
    /\ call.out.orders = <<>> /\ call.out.submitted = <<>> /\ sent = <<>>

\* C14 as stated: close_position for a symbol with no live position returns a
\* failed result with a not-found message, raises nothing and submits no order.
C14_NoPositionNoOrder == CloseWithoutPosition => NotFoundOutcome

\* C14, amended: close_position for a symbol with no live position and no
\* position-cache entry younger than 5 seconds returns a failed result with a
\* not-found message, raises nothing and submits no order.
C14_NoPositionNoFreshEntryNoOrder ==
    (/\ CloseWithoutPosition
     /\ ~(call.args.before._position_cache.size # 0 /\ call.args.before.age < 5)) => NotFoundOutcome

\* C15: when close_position found the live position of the symbol and a
\* request reached the exchange, it is one reduce-only MARKET order on the
\* opposing side whose contract quantity is the full position size.
C15_CloseOrderFullSize ==
    (/\ call.op = "close_position" /\ ~Unconfigured(call.args.exchange)
     /\ call.args.before.position.size # 0
     /\ call.out.positions = <<call.args.before.position>>
     /\ call.out.submitted # <<>>) =>
        /\ Len(call.out.submitted) = 1
        /\ call.out.submitted[1].type = "MARKET"
        /\ call.out.submitted[1].reduceOnly
        /\ call.out.submitted[1].side
             = (IF call.args.before.position.side = "long" THEN "sell" ELSE "buy")
        /\ call.out.submitted[1].amount
             = call.args.before.position.size * Pow10(AmountPrecision)

\* C16: modify_position on a configured exchange with a live position
\* attempts the stop-loss order iff stop_loss is given and the take-profit
\* order iff take_profit is given, and returns true iff every attempted order
\* succeeded; with both omitted it returns true and submits nothing.
C16_SuccessIsAndOfAttempted ==
    (/\ call.op = "modify_position" /\ ~Unconfigured(call.args.exchange)
     /\ call.out.positions # <<>>) =>
        /\ call.out.attempted
             = (IF call.args.stop_loss # 0 THEN <<"stop_loss">> ELSE <<>>)
               \o (IF call.args.take_profit # 0 THEN <<"take_profit">> ELSE <<>>)
        /\ call.out.success <=> (Len(sent) = Len(call.out.attempted)
                                 /\ \A i \in DOMAIN sent : sent[i].accepted)
        /\ (call.args.stop_loss = 0 /\ call.args.take_profit = 0) =>
              (call.out.success /\ call.out.submitted = <<>>)

\* C21: between any two consecutive outbound exchange calls of a client at
\* least min_request_interval elapses, within one operation and from one
\* operation to the next, and every call of the operation goes out.
C21_RequestIntervalKept ==
    (call.op \in {"create_order", "cancel_order"}) =>
        /\ Len(call.out.gaps) = Len(call.out.steps)
        /\ \A i \in DOMAIN call.out.gaps : call.out.gaps[i] >= 2

\* The entry the read of call looks up: <<>> (none) or <<value>>, and its age
\* in seconds, both taken when the call was made.
LookedUp ==
    IF call.op = "get_market_info" THEN call.args.before._market_cache
    ELSE IF call.op = "get_balance" THEN call.args.before._balance_cache
    ELSE IF call.args.before._position_cache.size # 0
    THEN <<call.args.before._position_cache>> ELSE <<>>

LookedUpAge ==
    IF call.op = "get_market_info" THEN call.args.before.market_age
    ELSE IF call.op = "get_balance" THEN call.args.before.balance_age
    ELSE call.args.before.age

\* A read of one of the three caches by its key.
CacheRead ==
    \/ call.op \in {"get_market_info", "get_balance"}
    \/ call.op = "get_positions" /\ call.args.symbol # ""

\* C22: get_market_info, get_balance and get_positions(symbol) answer from the
\* cache, without an exchange call, iff an entry for the key exists and is
\* younger than 5 seconds, and they then return that entry; an entry of 5
\* seconds or more forces a fetch.
C22_CacheFirstWithTTL ==
    CacheRead =>
        /\ ~call.out.fetched <=> (LookedUp # <<>> /\ LookedUpAge < 5)
        /\ ~call.out.fetched => call.out.value = LookedUp
        /\ (LookedUp # <<>> /\ LookedUpAge >= 5) => call.out.fetched

\* The position cache and the balance cache of a client.
Caches(cl) ==
    <<cl._position_cache, cl.age, cl._position_cache_all, cl.all_age,
      cl._balance_cache, cl.balance_age>>

\* A get_positions(symbol) less than 5 seconds after a successful close.
ReadAfterClose ==
    call.op = "get_positions" /\ call.args.symbol # "" /\ call.args.before.since_close < 5

\* C23 as stated: create_order (with set_leverage), cancel_order and
\* close_position leave the position cache and the balance cache unchanged,
\* and a get_positions(symbol) issued within 5 seconds after a successful
\* close returns, from the cache, the position close_position had read.
C23_WritesLeaveCachesUnchanged ==
    /\ (call.op \in {"create_order", "cancel_order", "close_position"}) =>
          Caches(client) = Caches(call.args.before)
    /\ ReadAfterClose =>
          (~call.out.fetched /\ call.out.value = <<call.args.before.closed>>)

\* C23, amended: no write removes or invalidates a cache entry: create_order
\* and cancel_order leave both caches unchanged, and close_position changes
\* the position cache only by storing the position its own lookup fetched; a
\* get_positions(symbol) issued after a successful close returns, from the
\* cache, the position close_position had read as long as that entry is
\* younger than 5 seconds, counted from the fetch that stored it.
C23_WritesInvalidateNothing ==
    /\ (call.op \in {"create_order", "cancel_order"}) =>
          Caches(client) = Caches(call.args.before)
    /\ (call.op = "close_position") =>
          \/ Caches(client) = Caches(call.args.before)
          \/ /\ call.out.fetched /\ call.out.positions # <<>>
             /\ Caches(client) = Caches([call.args.before EXCEPT
                                            !._position_cache = call.out.positions[1], !.age = 0])
    /\ (/\ ReadAfterClose
        /\ call.args.before.since_close <= call.args.before.age
        /\ call.args.before.age < 5) =>
          (~call.out.fetched /\ call.out.value = <<call.args.before.closed>>)

\* C24: get_positions, with or without symbol, returns a flat list of
\* positions, none of size zero, and a cache hit returns the list that the
\* fetch which filled the cache had returned.
C24_PositionsFlatAndSameOnHit ==
    (call.op = "get_positions") =>
        /\ \A i \in DOMAIN call.out.value :
              /\ DOMAIN call.out.value[i] = {"size", "side"}
              /\ call.out.value[i].size # 0
        /\ ~call.out.fetched =>
              call.out.value = (IF call.args.symbol = ""
                                THEN call.args.before._position_cache_all[1]
                                ELSE <<call.args.before._position_cache>>)

Accepted ==
    /\ call.op = "process_message" /\ ~call.out.signal.none
    /\ call.out.signal.action \in {"OPEN_LONG", "OPEN_SHORT"}

\* C26: process_message returns no opening signal whose reward (entry to the
\* extreme take-profit) is less than 1.5 times its risk (entry to stop-loss).
C26_AcceptedHasRiskReward ==
    Accepted =>
        LET signal == call.out.signal
            entry == IF signal.entry_price = 0
                     THEN SumPrice(signal.entry_zones) \div Len(signal.entry_zones)
                     ELSE signal.entry_price
            reward == IF signal.action = "OPEN_LONG"
                      THEN MaxPrice(signal.take_profit_levels) - entry
                      ELSE entry - MinPrice(signal.take_profit_levels)
            risk == IF signal.action = "OPEN_LONG" THEN entry - signal.stop_loss
                    ELSE signal.stop_loss - entry
        IN  risk > 0 /\ 2 * reward >= 3 * risk

\* C27: the zone percentages of a signal with entry zones that process_message
\* returns sum to 1.0 within 1e-5.
C27_ZonePercentagesSumToOne ==
    (call.op = "process_message" /\ ~call.out.signal.none /\ call.out.signal.entry_zones # <<>>) =>
        Abs(SumNum(call.out.signal.entry_zones) - 100) * 100000 <= 100

\* process_message returned a signal with take-profit levels.
WithLevels ==
    /\ call.op = "process_message" /\ ~call.out.signal.none
    /\ call.out.signal.take_profit_levels # <<>>

\* C28: the take-profit percentages of a signal that comes out of
\* _convert_to_trading_signal sum to 1.0 within 1e-5; the levels keep their
\* prices and the proportions between their percentages.
C28_TakeProfitPercentagesSumToOne ==
    WithLevels =>
        LET given == call.args.data.take_profit_levels
            made == call.out.signal.take_profit_levels
            den == made[1].percentage.den
        IN  /\ Len(made) = Len(given)
            /\ \A i \in DOMAIN made :
                  /\ made[i].price = given[i].price
                  /\ made[i].percentage.den = den
            /\ den > 0 /\ Abs(SumNum(made) - den) * 100000 <= den
            /\ \A i, j \in DOMAIN made :
                  made[i].percentage.num * given[j].percentage.num
                    = made[j].percentage.num * given[i].percentage.num

\* A candidate for an opening signal that passes the JSON validation and has
\* an entry and take-profit levels whose percentages do not sum to 0, but no
\* stop-loss.
WithoutStopLoss ==
    /\ call.op = "process_message"
    /\ call.args.data.exchange \in {"BINANCE", "OKX"}
    /\ call.args.data.action \in {"OPEN_LONG", "OPEN_SHORT"}
    /\ call.args.data.entry_price # 0 /\ call.args.data.entry_zones = <<>>
    /\ SumNum(call.args.data.take_profit_levels) # 0
    /\ call.args.data.stop_loss = 0

\* C29: a candidate for an opening signal without stop-loss is accepted, with
\* the stop 2% of the entry below it for OPEN_LONG and above it for OPEN_SHORT.
C29_DefaultStopLoss ==
    WithoutStopLoss =>
        /\ ~call.out.signal.none
        /\ call.out.signal.stop_loss * 100
             = call.args.data.entry_price
                 * (IF call.args.data.action = "OPEN_LONG" THEN 98 ELSE 102)

\* _validate_and_complete_signal was given an opening signal with an entry
\* and without take-profit levels; the stop it works with (given or default).
WithoutLevels ==
    /\ call.op = "_validate_and_complete_signal"
    /\ call.args.signal.action \in {"OPEN_LONG", "OPEN_SHORT"}
    /\ call.args.signal.entry_price # 0 \/ call.args.signal.entry_zones # <<>>
    /\ call.args.signal.take_profit_levels = <<>>

LadderEntry ==
    IF call.args.signal.entry_price # 0 THEN call.args.signal.entry_price
    ELSE SumPrice(call.args.signal.entry_zones) \div Len(call.args.signal.entry_zones)

LadderStop ==
    IF call.args.signal.stop_loss # 0 THEN call.args.signal.stop_loss
    ELSE IF call.args.signal.action = "OPEN_LONG" THEN LadderEntry - LadderEntry \div 50
    ELSE LadderEntry + LadderEntry \div 50

\* The signal came back with the stop and three levels at 2, 3 and 4 times
\* the entry-to-stop distance beyond the entry, with 40%, 30% and 30%.
LadderMade ==
    LET made == call.out.signal.take_profit_levels
        distance == Abs(LadderEntry - LadderStop)
        sign == IF call.args.signal.action = "OPEN_LONG" THEN 1 ELSE 0 - 1
    IN  /\ ~call.out.signal.none
        /\ call.out.signal.stop_loss = LadderStop
        /\ Len(made) = 3
        /\ \A i \in 1..3 : made[i].price = LadderEntry + sign * (i + 1) * distance
        /\ <<made[1].percentage, made[2].percentage, made[3].percentage>>
             = <<[num |-> 40, den |-> 100], [num |-> 30, den |-> 100], [num |-> 30, den |-> 100]>>

\* C30 as stated: an opening signal without take-profit levels whose
\* entry-to-stop distance is positive is completed with the 2R/3R/4R ladder
\* and passes the risk/reward check.
C30_DefaultLadderPasses ==
    (WithoutLevels /\ Abs(LadderEntry - LadderStop) > 0) => LadderMade

\* C30, amended: an opening signal without take-profit levels whose stop is on
\* the loss side of the entry (below it for OPEN_LONG, above it for
\* OPEN_SHORT) is completed with the 2R/3R/4R ladder and passes the
\* risk/reward check.
C30_DefaultLadderPassesOnLossSide ==
    (/\ WithoutLevels
     /\ IF call.args.signal.action = "OPEN_LONG" THEN LadderStop < LadderEntry
        ELSE LadderStop > LadderEntry) => LadderMade

\* The structural fields of a candidate are sound: exchange, symbol and
\* action are present and valid, and entry_zones and take_profit_levels are
\* lists of {price, percentage} pairs.
Structural(data) ==
    /\ data.exchange \in {"BINANCE", "OKX"} /\ data.symbol # ""
    /\ data.action \in {"OPEN_LONG", "OPEN_SHORT", "CLOSE"}
    /\ \A i \in DOMAIN data.entry_zones : DOMAIN data.entry_zones[i] = {"price", "percentage"}
    /\ \A i \in DOMAIN data.take_profit_levels :
          DOMAIN data.take_profit_levels[i] = {"price", "percentage"}

\* C31: the validation rejects a candidate for its structural fields only; a
\* position_size, leverage or confidence that is not a number does not make
\* it fail.
C31_OnlyStructuralFieldsReject ==
    call.op = "process_message" => (call.out.valid <=> Structural(call.args.data))

\* _convert_to_trading_signal returned a signal.
Converted == call.op = "_convert_to_trading_signal" /\ ~call.out.signal.none

\* C32: a signal that comes out of _convert_to_trading_signal has its zones
\* and no entry_price (also when the candidate carried both), or an
\* entry_price and no zones; a candidate with no entry_price and no usable
\* zone yields no signal.
C32_OneEntryReference ==
    call.op = "_convert_to_trading_signal" =>
        LET data == call.args.data
            signal == call.out.signal
            zones == SelectSeq(data.entry_zones, LAMBDA z : DOMAIN z = {"price", "percentage"})
        IN  /\ ~signal.none =>
                  \/ signal.entry_zones # <<>> /\ signal.entry_price = 0
                  \/ signal.entry_zones = <<>> /\ signal.entry_price # 0
            /\ (~signal.none /\ data.entry_zones # <<>>) => signal.entry_zones = zones
            /\ (data.entry_price = 0 /\ zones = <<>>) => signal.none

\* C33: in an opening signal that process_message returns every take-profit
\* price is above the entry reference for OPEN_LONG and below it for
\* OPEN_SHORT.
C33_TakeProfitsOnProfitSide ==
    (/\ call.op = "process_message" /\ ~call.out.signal.none
     /\ call.out.signal.action \in {"OPEN_LONG", "OPEN_SHORT"}) =>
        LET signal == call.out.signal
            entry == IF signal.entry_zones # <<>>
                     THEN SumPrice(signal.entry_zones) \div Len(signal.entry_zones)
                     ELSE signal.entry_price
        IN  \A i \in DOMAIN signal.take_profit_levels :
              IF signal.action = "OPEN_LONG" THEN signal.take_profit_levels[i].price > entry
              ELSE signal.take_profit_levels[i].price < entry

\* The create_order call whose outcome call holds.
OrderCall == call.op = "create_order"

\* The leverage create_order asks for: order.leverage or 50.
RequestedLeverage == IF call.args.order.leverage # 0 THEN call.args.order.leverage ELSE 50

\* The price create_order sizes with.
SizingPrice ==
    IF call.args.order.order_type = "LIMIT" /\ call.args.order.price # 0
    THEN call.args.order.price ELSE call.args.env.last

\* C17: the leverage applied on the exchange is min(requested, maximum), and the
\* quantity of the submitted order is sized with that applied leverage: it is
\* within one unit of the amount precision of amount * applied / price.
C17_SizingUsesAppliedLeverage ==
    (OrderCall /\ Len(call.out.submitted) = 1) =>
        LET applied == call.out.submitted[1].leverage
            num == call.args.order.amount * applied * 2 * Pow10(AmountPrecision)
            den == 100 * SizingPrice
            q == call.out.submitted[1].amount
        IN  /\ applied = (IF RequestedLeverage < call.args.env.max_leverage
                          THEN RequestedLeverage ELSE call.args.env.max_leverage)
            /\ q * den <= num + den
            /\ q * den >= num - den

\* C18: the quantity of a submitted order never exceeds the raw quantity
\* amount * leverage / price, for the leverage convert_amount_to_contracts used.
C18_QuantityRoundedDown ==
    (OrderCall /\ Len(call.out.submitted) = 1) =>
        LET applied == call.out.submitted[1].leverage
            used == IF applied < call.args.env.sizing_max_leverage
                    THEN applied ELSE call.args.env.sizing_max_leverage
        IN  call.out.submitted[1].amount * 100 * SizingPrice
                <= call.args.order.amount * used * 2 * Pow10(AmountPrecision)

\* The order of the call lacks a field validation requires.
InvalidOrder ==
    \/ call.args.order.symbol = "" \/ call.args.order.side = ""
    \/ call.args.order.order_type = "" \/ call.args.order.amount <= 0
    \/ call.args.order.order_type = "LIMIT" /\ call.args.order.price = 0
    \/ call.args.order.order_type \in {"STOP", "TAKE_PROFIT"} /\ call.args.order.stop_price = 0

\* C19: create_order with an order that lacks symbol, side, type, a positive
\* amount, the price of a LIMIT order or the stop price of a STOP or TAKE_PROFIT
\* order fails before any other step: no market, margin mode or leverage call
\* and no order submitted.
C19_InvalidOrderFailsLocally ==
    (OrderCall /\ InvalidOrder) =>
        /\ call.out.raised
        /\ call.out.steps = <<>>
        /\ call.out.submitted = <<>>
        /\ sent = <<>>

\* C20: create_order never returns a failed OrderResult: it raises or returns
\* success; it raises when the margin mode, leverage or order call fails, and
\* when the margin mode or leverage call failed no order was submitted.
C20_WriteFailuresPropagate ==
    OrderCall =>
        /\ call.out.raised \/ call.out.result.success
        /\ (~InvalidOrder /\ call.args.env.last # 0 /\ call.args.env.fail # "none") => call.out.raised
        /\ (call.out.raised /\ call.args.env.fail \in {"margin_mode", "leverage"}) =>
              /\ call.out.submitted = <<>>
              /\ "createOrder" \notin {call.out.steps[i] : i \in DOMAIN call.out.steps}

\* ---------------------------------------------------------------- witnesses
\* A pass at a price that reaches both levels of a signal while the first is
\* already hit: only the second level's close order was sent.
C4_Witness ==
    /\ pc = "stats"
    /\ Len(sent) = 1 /\ sent[1].kind = "tp" /\ sent[1].ctx.index = 2 /\ sent[1].accepted
    /\ close_orders[SentKey(sent[1])] = <<1, 1>>

\* A close order the exchange refused, after an earlier one of the same pass succeeded.
C5_Witness ==
    /\ pc = "stats"
    /\ Len(sent) = 2 /\ sent[1].kind = "tp" /\ sent[1].accepted /\ ~sent[2].accepted
    /\ Level(SentKey(sent[2]), 1).is_hit /\ ~Level(SentKey(sent[2]), 2).is_hit

\* The first exchange's pass raised and the second exchange's pass ran.
C6_Witness ==
    pc = "sleep" /\ exchanges[1] \in failed /\ exchanges[2] \in ran

\* The pass of every exchange raised and the iteration has reached its sleep.
C7_Witness ==
    /\ failed = {"BINANCE", "OKX"}
    /\ pc = "sleep"

\* A signal without zones and without entry price, placed as one MARKET order.
C11_Witness ==
    /\ ExecReturned /\ exec.result.success
    /\ Len(exec.signal.entry_zones) = 0 /\ exec.signal.entry_price = 0
    /\ Len(sent) = 1 /\ sent[1].params.type = "MARKET"

\* close_position called for BYBIT, which has no client, while the account
\* holds a position: the failed result is there and nothing was asked or sent.
C12_Witness ==
    /\ call.op = "close_position" /\ Unconfigured(call.args.exchange)
    /\ call.args.before.position.size # 0
    /\ ~call.out.success /\ sent = <<>>

\* Both keys configured, the Binance balance probe failed and OKX started:
\* initialize returned true with OKX alone registered, and a close request for
\* BINANCE, made while the account holds a position, reached no client.
C13_Witness ==
    /\ boot.done /\ boot.result /\ exchanges = <<"OKX">>
    /\ boot.config.binance_testnet_api_key /\ boot.outcome["BINANCE"] = "balance"
    /\ call.op = "close_position" /\ call.args.exchange = "BINANCE"
    /\ call.args.before.position.size # 0 /\ ~call.out.success /\ sent = <<>>

\* The position was closed on the exchange, its cache entry is 5 seconds old:
\* close_position asked the exchange, found nothing and sent nothing.
C14_Witness ==
    /\ CloseWithoutPosition /\ NotFoundOutcome /\ call.out.fetched
    /\ call.args.before._position_cache.size # 0 /\ call.args.before.age = 5

\* get_market_info with an entry that is exactly 5 seconds old: the exchange
\* was asked and the ticker price it reported differs from the cached one.
C22_Witness ==
    /\ call.op = "get_market_info" /\ call.out.fetched
    /\ call.args.before._market_cache # <<>> /\ call.args.before.market_age = 5
    /\ call.out.value # <<>> /\ call.out.value # call.args.before._market_cache

\* Two seconds after a successful close the position is gone on the exchange,
\* and get_positions still returns the position close_position had read.
C23_Witness ==
    /\ ReadAfterClose /\ call.args.before.since_close = 2
    /\ call.args.before.since_close <= call.args.before.age /\ call.args.before.age < 5
    /\ call.args.before.position.size = 0
    /\ ~call.out.fetched /\ call.out.value = <<call.args.before.closed>>

C32_Witness ==
    /\ Converted /\ call.args.data.entry_price = 10000
    /\ Len(call.args.data.entry_zones) = 2
    /\ call.out.signal.entry_zones = call.args.data.entry_zones
    /\ call.out.signal.entry_price = 0

\* Two levels of 40% each came out with 40/80 each.
C28_Witness ==
    /\ WithLevels /\ Len(call.args.data.take_profit_levels) = 2
    /\ SumNum(call.args.data.take_profit_levels) = 80
    /\ call.out.signal.take_profit_levels[1].percentage = [num |-> 40, den |-> 80]
    /\ call.out.signal.take_profit_levels[2].percentage = [num |-> 40, den |-> 80]

\* A long at 100 with stop 98 and no levels came back with 104, 106, 108.
C30_Witness ==
    /\ WithoutLevels /\ LadderMade
    /\ call.args.signal.action = "OPEN_LONG" /\ call.args.signal.entry_price = 10000
    /\ call.args.signal.stop_loss = 9800
    /\ call.out.signal.take_profit_levels[1].price = 10400
    /\ call.out.signal.take_profit_levels[2].price = 10600
    /\ call.out.signal.take_profit_levels[3].price = 10800

\* A LIMIT order without price, handed to create_order while the exchange
\* would have accepted every call.
C19_Witness ==
    /\ OrderCall /\ call.out.raised
    /\ call.args.order.order_type = "LIMIT" /\ call.args.order.price = 0
    /\ call.args.order.symbol # "" /\ call.args.order.side # "" /\ call.args.order.amount > 0
    /\ call.args.env.last # 0 /\ call.args.env.fail = "none"

\* A valid order whose setLeverage call failed: create_order raised after it.
C20_Witness ==
    /\ OrderCall /\ call.out.raised /\ ~InvalidOrder
    /\ call.args.env.fail = "leverage"
    /\ call.out.steps[Len(call.out.steps)] = "setLeverage"

\* The request-driven call is in progress.
RequestStarted == tasks.state["request"] # "idle"

\* The monitoring task has begun a pass: it stands in fetch_positions.
PassBegun == Len(tasks.stack["monitor"]) = 2 /\ tasks.stack["monitor"][2].fn = "fetch_positions"

\* C34: the monitoring task and the request-driven calls, run side by side
\* against one client and one symbol, never block each other: a call that has
\* started completes once its exchange calls return, and the monitoring
\* task begins pass after pass.
C34_NoDeadlock == (RequestStarted ~> ~RequestStarted) /\ []<>PassBegun

\* Both tasks stand at createOrder at once: the request in execute_signal,
\* the monitoring task in a take-profit check.
C34_Witness ==
    /\ tasks.state["request"] = "in_flight" /\ awaited("request") = "createOrder"
    /\ tasks.state["monitor"] = "in_flight" /\ awaited("monitor") = "createOrder"
    /\ tasks.stack["request"][1].fn = "execute_signal"
    /\ tasks.stack["monitor"][2].fn = "_check_take_profit_levels"

\* C35: concurrent get_market_info calls leave the cache entry whole: its
\* timestamp is the 'now' of the call that fetched its value, which is not
\* later than the moment of the fetch, so a cache hit never serves a value
\* fetched CACHE_DURATION seconds ago or earlier.
C35_LastWriterWins ==
    /\ tasks._market_cache # <<>> => tasks._market_cache[1].fetch_age <= tasks._market_cache[1].age
    /\ tasks.served # <<>> => tasks.served[1].fetch_age < CACHE_DURATION

\* The monitoring task is served the entry a call of the request stored:
\* that call had started 4 seconds ago, its value was fetched 1 second ago.
C35_Witness ==
    /\ tasks.state["monitor"] = "running" /\ tasks.served # <<>>
    /\ tasks.served[1].by = "request"
    /\ tasks.served[1].age = 4 /\ tasks.served[1].fetch_age = 1

\* execute_signal is in progress or has returned for a signal with zones
\* and a configured exchange.
ZonesCall ==
    /\ exec.pc \in {"zones", "returned"}
    /\ exec.error_message # "Exchange " \o exec.signal.exchange \o " not configured"
    /\ Len(exec.signal.entry_zones) > 0

\* C36: for a signal with at least one entry zone, what execute_signal
\* returns is the result of the first zone's order, whatever happened to the
\* orders of the later zones.
C36_FirstZoneResult ==
    (ZonesCall /\ exec.pc = "returned" /\ exec.results # <<>>) => exec.result = exec.results[1]

\* The order of zone j was submitted and accepted: create_order returned its
\* result.
ZoneSubmitted(j) == j <= Len(exec.results) /\ exec.results[j].success

\* C37: while execute_signal runs and after it, a zone has status PLACED if
\* and only if it has an order id, which is then the id create_order returned
\* for the order of that zone; a zone whose order was not submitted or failed
\* keeps its initial status and has no order id.
C37_PlacedIffOrderId ==
    ZonesCall =>
        \A j \in 1..Len(exec.signal.entry_zones) :
            LET zone == exec.signal.entry_zones[j] IN
            /\ zone.status = "PLACED" <=> zone.order_id # 0
            /\ zone.status = "PLACED" =>
                  /\ ZoneSubmitted(j) /\ zone.order_id = exec.results[j].order_id
                  /\ j <= Len(sent) /\ sent[j].accepted /\ sent[j].ctx.index = j
            /\ ~ZoneSubmitted(j) => zone.status = "PENDING" /\ zone.order_id = 0

\* Two zones: the order of the first was placed, the order of the second was
\* refused by the exchange.
C37_Witness ==
    /\ ZonesCall /\ exec.pc = "returned" /\ Len(exec.signal.entry_zones) = 2
    /\ exec.signal.entry_zones[1].status = "PLACED" /\ exec.signal.entry_zones[1].order_id = 1
    /\ exec.signal.entry_zones[2].status = "PENDING" /\ exec.signal.entry_zones[2].order_id = 0
    /\ Len(sent) = 2 /\ sent[1].accepted /\ ~sent[2].accepted

\* C38: execute_signal submits no position-opening order for a CLOSE signal:
\* every order it submits without reduceOnly is a buy of an OPEN_LONG signal
\* or a sell of an OPEN_SHORT signal.
C38_OnlyOpeningSignalsOpen ==
    exec.pc # "idle" =>
        \A i \in DOMAIN sent :
            (sent[i].kind = "entry" /\ ~sent[i].params.reduceOnly) =>
                \/ exec.signal.action = "OPEN_LONG" /\ sent[i].params.side = "buy"
                \/ exec.signal.action = "OPEN_SHORT" /\ sent[i].params.side = "sell"

\* C39: the dynamic stop-loss check does not issue again a stop it has
\* applied: with the price unchanged the next pass submits no stop order, so
\* each stop applied for a dynamic_sl signal differs from the one applied
\* before it.
C39_AppliedStopNotReissued ==
    \A key \in Keys :
        (active_signals[key].dynamic_sl /\ stop_orders[key][1] # 0) =>
            stop_orders[key][2] # stop_orders[key][1]

\* The call found a fresh entry of the symbol in the market cache.
MarketCacheHit(cl) == cl._market_cache # <<>> /\ cache_fresh(cl.market_age)

\* C40: a market-info cache hit always carries a last price: no entry without
\* last price is stored under a fresh timestamp, so a create_order with valid
\* parameters for a loaded symbol is never refused with 'Cannot get market
\* info' because of the entry the cache served.
C40_CacheHitCarriesPrice ==
    /\ MarketCacheHit(client) => client._market_cache[1] # 0
    /\ (call.op = "create_order" /\ validate(call.args.order) /\ MarketCacheHit(call.args.before)) =>
          ~(call.out.raised /\ call.out.steps = <<"get_market_info">>)

====
